---- MODULE Spec2Model ----
(***************************************************************************)
(* Model of the gnosis mind-map engine (components/mind-map.tsx):          *)
(* topology analysis (calculateDepthsAndIslands), the SimNode / SimLink    *)
(* merge performed on every update, the d3 simulation's activity flags and *)
(* the requestAnimationFrame render loop.                                  *)
(***************************************************************************)
EXTENDS Integers, Sequences, FiniteSets, TLC

VARIABLES
    nodes,              \* prop `nodes`: GraphNode[]
    edges,              \* prop `edges`: GraphEdge[]
    rootsDone,          \* number of rootNodes.forEach iterations completed
    depthMap,           \* depthMap of calculateDepthsAndIslands
    islandMap,          \* islandMap of calculateDepthsAndIslands
    expandingNodeId,    \* prop `expandingNodeId`
    dimensions,         \* useState({ width: 800, height: 600 })
    hoveredNode,        \* useState<SimNode | null>(null), by id
    selectedNode,       \* useState<SimNode | null>(null), by id
    simNodes,           \* simNodesRef.current
    simLinks,           \* simLinksRef.current (endpoints are indices into simNodes)
    prevNodeIds,        \* prevNodeIdsRef.current
    needsRedraw,        \* needsRedrawRef.current
    isSimulationActive, \* isSimulationActiveRef.current
    alpha,              \* the d3 simulation's alpha, as a level (0: below alphaMin)
    simRunning,         \* the d3 simulation's timer is running
    simulations,        \* number of d3 simulations created (simulationRef.current)
    rafPending,         \* the request named by animationFrameRef.current is outstanding
    rafRequests,        \* number of requestAnimationFrame callbacks the host holds
    rafAt,              \* clock value at which it was requested
    lastTime,           \* `lastTime` of the render loop effect
    renderInit,         \* the render loop effect is due to re-run in this commit
    frameDrew,          \* the last run of render() cleared and redrew the surface
    surface,            \* the last redraw: the transform applied and the draw calls in order
    mounted,            \* the component is mounted
    resizeTimer,        \* resizeTimeout of the resize effect is pending
    transform,          \* transformRef.current: x, y in 1/10 px, k in tenths
    zoomTransform,      \* the transform d3-zoom keeps on the mounted canvas element
    isExpanding,        \* prop `isExpanding`
    clicks,             \* invocations of the onNodeClick prop, oldest first
    lastMouseMove,      \* lastMouseMoveRef.current
    updates,            \* number of runs of the update effect
    rng,                \* state of Math.random's generator
    droppedIds,         \* history: ids whose SimNode has been discarded by an update
    now,                \* Date.now()
    colorArgs,          \* arguments of a call of getColorByDepthAndIsland
    colorOut,           \* the colour that call returned, NoColor before it
    graphState,         \* useGraphState: `state` (nodes, edges, logs)
    isLoaded,           \* useGraphState: `isLoaded`
    saveTimeout,        \* saveTimeoutRef.current: the pending save and its due time
    localStorage,       \* the items stored under STORAGE_KEY: none or one
    contextRef,         \* contextRef.current
    contextNodesLengthRef, \* contextNodesLengthRef.current
    pageOpen,           \* the page that uses the hook is open
    contextCalls,       \* number of calls of getContext
    logIds,             \* number of ids generateId has handed out
    fetchKind,          \* the request the QueryClient runs: none, a query or a mutation
    fetchState,         \* its state: idle, fetching, success or error
    failureCount,       \* the retryer's failureCount
    attempts,           \* history: the outcome of each attempt made, oldest first
    value,              \* OmniBar: `value`, the text in the input
    debouncedInput,     \* useFuzzySearch: `debouncedInput`
    debounceTimer,      \* useFuzzySearch: due time of the pending debounce timer
    showSuggestions,    \* OmniBar: `showSuggestions`
    isFocused,          \* OmniBar: `isFocused`
    typoDialog,         \* Home: `typoDialog` (isOpen, spellCheck)
    homeExpandingNodeId, \* Home: `expandingNodeId`
    mutations,          \* the backend requests in flight
    mutationId,         \* number of backend requests started
    currentMutation     \* per useMutation observer, the request it tracks

topoVars == <<nodes, edges, rootsDone, depthMap, islandMap>>

propVars == <<expandingNodeId, dimensions, hoveredNode, selectedNode>>

mergeVars == <<simNodes, simLinks, prevNodeIds, updates, rng, droppedIds>>

simVars == <<needsRedraw, isSimulationActive, alpha, simRunning, simulations>>

loopVars == <<rafPending, rafRequests, rafAt, lastTime, renderInit, frameDrew, surface>>

lifeVars == <<mounted, resizeTimer>>

viewVars == <<transform, zoomTransform, isExpanding, clicks, lastMouseMove>>

colorVars == <<colorArgs, colorOut>>

storeVars == <<graphState, isLoaded, saveTimeout, localStorage, contextRef, contextNodesLengthRef,
               pageOpen, contextCalls, logIds>>

netVars == <<fetchKind, fetchState, failureCount, attempts>>

omniVars == <<value, debouncedInput, debounceTimer, showSuggestions, isFocused>>

homeVars == <<omniVars, typoDialog, homeExpandingNodeId, mutations, mutationId, currentMutation>>

appVars == <<netVars, homeVars>>

hookVars == <<colorVars, storeVars, appVars>>

engineVars == <<propVars, mergeVars, simVars, loopVars, lifeVars, viewVars, now, hookVars>>

vars == <<topoVars, engineVars>>

(***************************************************************************)
(* Bounds                                                                  *)
(***************************************************************************)
TopoMaxNodes == 3
TopoMaxEdges == 2

(***************************************************************************)
(* Inputs: GraphNode and GraphEdge lists.  Ids are 1..n; id 0 never names  *)
(* a node, so an edge with endpoint 0 references an absent node.           *)
(***************************************************************************)
NodeTypes == {"root", "generated"}

\* GraphNode records over the ids 1..n
GraphNodes(n) == [id : 1..n, type : NodeTypes, label : {"a"}, reason : {""}]

Range(s) == {s[i] : i \in DOMAIN s}

SeqsUpTo(S, n) == UNION {[1..k -> S] : k \in 0..n}

IdsOf(ns) == {ns[i].id : i \in DOMAIN ns}

UniqueIds(ns) == \A i, j \in DOMAIN ns : ns[i].id = ns[j].id => i = j

NodeLists(n) ==
    {ns \in SeqsUpTo(GraphNodes(n), n) : UniqueIds(ns)}

\* node lists up to renaming of ids: the i-th node has id i
OrderedNodeLists(n) ==
    {ns \in SeqsUpTo(GraphNodes(n), n) : \A i \in DOMAIN ns : ns[i].id = i}

EdgeLists(n, m) == SeqsUpTo([source : 0..n, target : 0..n], m)

(***************************************************************************)
(* Map<string, number>                                                     *)
(***************************************************************************)
EmptyMap == [k \in {} |-> 0]

Has(m, k) == k \in DOMAIN m

MapSet(m, k, v) == [x \in (DOMAIN m) \cup {k} |-> IF x = k THEN v ELSE m[x]]

(***************************************************************************)
(* calculateDepthsAndIslands                                               *)
(***************************************************************************)
\* nodes.filter((n) => n.type === "root")
RootNodes(ns) == SelectSeq(ns, LAMBDA n : n.type = "root")

ChildrenUndirected(es, current) ==
    LET touching == SelectSeq(es, LAMBDA e : e.source = current.id \/ e.target = current.id)
    IN  [i \in DOMAIN touching |->
            IF touching[i].source = current.id THEN touching[i].target
                                               ELSE touching[i].source]

\* edges.filter((e) => e.source === current.id).map((e) => e.target)
Children(es, current) ==
    LET out == SelectSeq(es, LAMBDA e : e.source = current.id)
    IN  [i \in DOMAIN out |-> out[i].target]

ChildDepthSame(current) == current.depth

\* current.depth + 1
ChildDepth(current) == current.depth + 1

ShouldVisitOrSteal(st, childId, islandIndex) ==
    \/ ~Has(st.depthMap, childId)
    \/ st.islandMap[childId] < islandIndex

\* if (!depthMap.has(childId))
ShouldVisit(st, childId, islandIndex) == ~Has(st.depthMap, childId)

RECURSIVE VisitChildrenOverwrite(_, _, _, _)
VisitChildrenOverwrite(children, current, islandIndex, st) ==
    IF children = <<>> THEN st
    ELSE LET childId == Head(children)
             st2 == [depthMap  |-> MapSet(st.depthMap, childId, ChildDepth(current)),
                     islandMap |-> MapSet(st.islandMap, childId, islandIndex),
                     queue     |-> IF ShouldVisit(st, childId, islandIndex)
                                   THEN Append(st.queue,
                                               [id |-> childId, depth |-> ChildDepth(current)])
                                   ELSE st.queue]
         IN  VisitChildrenOverwrite(Tail(children), current, islandIndex, st2)

\* for (const childId of children) { ... }
RECURSIVE VisitChildren(_, _, _, _)
VisitChildren(children, current, islandIndex, st) ==
    IF children = <<>> THEN st
    ELSE LET childId == Head(children)
             st2 == IF ShouldVisit(st, childId, islandIndex)
                    THEN [depthMap  |-> MapSet(st.depthMap, childId, ChildDepth(current)),
                          islandMap |-> MapSet(st.islandMap, childId, islandIndex),
                          queue     |-> Append(st.queue,
                                               [id |-> childId, depth |-> ChildDepth(current)])]
                    ELSE st
         IN  VisitChildren(Tail(children), current, islandIndex, st2)

\* while (queue.length > 0) { const current = queue.shift()!; ... }
RECURSIVE BfsLoop(_, _, _)
BfsLoop(es, islandIndex, st) ==
    IF st.queue = <<>> THEN st
    ELSE LET current == Head(st.queue)
             rest == [st EXCEPT !.queue = Tail(st.queue)]
         IN  BfsLoop(es, islandIndex,
                     VisitChildren(Children(es, current), current, islandIndex, rest))

SeedRootFirstClaim(maps, rootNode, islandIndex) ==
    IF Has(maps.depthMap, rootNode.id)
    THEN [depthMap |-> maps.depthMap, islandMap |-> maps.islandMap, queue |-> <<>>]
    ELSE [depthMap  |-> MapSet(maps.depthMap, rootNode.id, 0),
          islandMap |-> MapSet(maps.islandMap, rootNode.id, islandIndex),
          queue     |-> <<[id |-> rootNode.id, depth |-> 0]>>]

\* queue = [{ id: rootNode.id, depth: 0 }]; depthMap.set(rootNode.id, 0);
\* islandMap.set(rootNode.id, islandIndex);
SeedRoot(maps, rootNode, islandIndex) ==
    [depthMap  |-> MapSet(maps.depthMap, rootNode.id, 0),
     islandMap |-> MapSet(maps.islandMap, rootNode.id, islandIndex),
     queue     |-> <<[id |-> rootNode.id, depth |-> 0]>>]

\* one iteration of rootNodes.forEach((rootNode, islandIndex) => { ... })
ProcessRoot(maps, rootNode, islandIndex, es) ==
    LET st == BfsLoop(es, islandIndex, SeedRoot(maps, rootNode, islandIndex))
    IN  [depthMap |-> st.depthMap, islandMap |-> st.islandMap]

\* the maps after the first k roots have been processed
RECURSIVE MapsAfter(_, _, _)
MapsAfter(ns, es, k) ==
    IF k = 0 THEN [depthMap |-> EmptyMap, islandMap |-> EmptyMap]
    ELSE ProcessRoot(MapsAfter(ns, es, k - 1), RootNodes(ns)[k], k - 1, es)

calculateDepthsAndIslands(ns, es) == MapsAfter(ns, es, Len(RootNodes(ns)))

(***************************************************************************)
(* Engine constants.  Times are in ms.  entranceProgress is kept in units  *)
(* of 1/600 (so 600 is progress 1), scale and glowIntensity in units of    *)
(* 1/10000, pulsePhase in units of 2*pi/6000.                              *)
(***************************************************************************)
MaxNodes == 2
MaxEdges == 1
MergeMaxEdges == 2
MaxCommits == 3
MergeMaxCommits == 2
MaxTime == 900
TimeStep == 300
AlphaReheat == 2
RngPeriod == 2

EntranceDuration == 600
InitialScale == 10000
InitialGlow == 4000
TargetScaleExpanding == 12500
TargetScaleHovered == 11500
TargetGlowExpanding == 9000
TargetGlowSelected == 8500
TargetGlowHovered == 7000
PulseRateExpanding == 5
PulseRateSelected == 2

NoNode == 0 - 1

InitialDimensions == [width |-> 800, height |-> 600]

\* d3's zoomIdentity: no translation, scale 1
zoomIdentity == [x |-> 0, y |-> 0, k |-> 10]

ContainerSizes == {[width |-> 0, height |-> 0]}

Min(a, b) == IF a <= b THEN a ELSE b

(***************************************************************************)
(* Math.random(): a generator with hidden state.  Draws are halves: 0      *)
(* stands for 0.0 and 1 for 0.5.                                           *)
(***************************************************************************)
Random(state, k) == ((state + k) % RngPeriod) % 2

\* (Math.random() - 0.5) * 50
Jitter(r) == (r - 1) * 25

\* Math.random() * Math.PI * 2
RandomPhase(r) == r * 3000

(***************************************************************************)
(* The update effect: merge of SimNodes, rebuild of SimLinks, reheat.      *)
(***************************************************************************)
\* existingNodes.get(node.id)
HasExisting(old, id) == \E i \in DOMAIN old : old[i].id = id

ExistingNode(old, id) ==
    old[CHOOSE i \in DOMAIN old :
            old[i].id = id /\ \A j \in DOMAIN old : j > i => old[j].id # id]

\* !prevNodeIdsRef.current.has(node.id) && prevNodeIdsRef.current.size > 0
IsNew(prev, id) == id \notin prev /\ Cardinality(prev) > 0

\* depthMap.get(node.id) ?? 0
GetOrZero(m, id) == IF Has(m, id) THEN m[id] ELSE 0

UpdateExistingStaleDepth(existing, node, maps) ==
    [existing EXCEPT !.label = node.label, !.type = node.type, !.reason = node.reason]

UpdateExistingRestart(existing, node, maps) ==
    [existing EXCEPT !.label = node.label,
                     !.type = node.type,
                     !.reason = node.reason,
                     !.depth = GetOrZero(maps.depthMap, node.id),
                     !.islandIndex = GetOrZero(maps.islandMap, node.id),
                     !.entranceProgress = 0]

UpdateExistingStaleLabel(existing, node, maps) ==
    [existing EXCEPT !.type = node.type,
                     !.depth = GetOrZero(maps.depthMap, node.id),
                     !.islandIndex = GetOrZero(maps.islandMap, node.id)]

\* the "Update existing node" branch
UpdateExisting(existing, node, maps) ==
    [existing EXCEPT !.label = node.label,
                     !.type = node.type,
                     !.reason = node.reason,
                     !.depth = GetOrZero(maps.depthMap, node.id),
                     !.islandIndex = GetOrZero(maps.islandMap, node.id)]

\* the "Create new node" branch; sim.nodes() gives a new node zero velocity
CreateNode(node, maps, dims, isNew, t, rs, k) ==
    [id |-> node.id,
     label |-> node.label,
     type |-> node.type,
     reason |-> node.reason,
     depth |-> GetOrZero(maps.depthMap, node.id),
     islandIndex |-> GetOrZero(maps.islandMap, node.id),
     x |-> (dims.width \div 2) + Jitter(Random(rs, k)),
     y |-> (dims.height \div 2) + Jitter(Random(rs, k + 1)),
     vx |-> 0,
     vy |-> 0,
     entranceProgress |-> IF isNew THEN 0 ELSE EntranceDuration,
     entranceStartTime |-> IF isNew THEN t ELSE 0,
     scale |-> InitialScale,
     glowIntensity |-> InitialGlow,
     pulsePhase |-> RandomPhase(Random(rs, k + 2))]

\* number of nodes created before position i of the new list
CreatedBefore(old, ns, i) == Cardinality({j \in 1..(i - 1) : ~HasExisting(old, ns[j].id)})

\* nodes.map((node) => { ... })
MergedNodes(old, prev, ns, maps, dims, t, rs) ==
    [i \in DOMAIN ns |->
        IF HasExisting(old, ns[i].id)
        THEN UpdateExisting(ExistingNode(old, ns[i].id), ns[i], maps)
        ELSE CreateNode(ns[i], maps, dims, IsNew(prev, ns[i].id), t, rs,
                        3 * CreatedBefore(old, ns, i))]

NewSimNodesKeepOmitted(old, prev, ns, maps, dims, t, rs) ==
    MergedNodes(old, prev, ns, maps, dims, t, rs)
        \o SelectSeq(old, LAMBDA n : n.id \notin IdsOf(ns))

\* newSimNodes, as stored in simNodesRef.current
NewSimNodes(old, prev, ns, maps, dims, t, rs) ==
    MergedNodes(old, prev, ns, maps, dims, t, rs)

\* nodeMap.get(id): the SimNode (its index in newSimNodes) stored last under id
NodeIndex(sn, id) ==
    CHOOSE i \in DOMAIN sn : sn[i].id = id /\ \A j \in DOMAIN sn : j > i => sn[j].id # id

\* nodeMap.has(e.source) && nodeMap.has(e.target)
LinkResolves(sn, e) == e.source \in IdsOf(sn) /\ e.target \in IdsOf(sn)

\* edges.filter(...).map((edge) => ({ source, target, label }))
NewSimLinks(es, sn) ==
    LET kept == SelectSeq(es, LAMBDA e : LinkResolves(sn, e))
    IN  [i \in DOMAIN kept |->
            [source |-> NodeIndex(sn, kept[i].source),
             target |-> NodeIndex(sn, kept[i].target)]]

EnsureSimulationAlwaysNew(n) == n + 1

\* if (!simulationRef.current) simulationRef.current = d3.forceSimulation()
EnsureSimulation(n) == IF n = 0 THEN 1 ELSE n

\* body of useEffect(..., [nodes, edges, dimensions.width, dimensions.height])
UpdateEffect(ns, es, dims) ==
    LET maps == calculateDepthsAndIslands(ns, es)
        sn == NewSimNodes(simNodes, prevNodeIds, ns, maps, dims, now, rng)
    IN  /\ depthMap' = maps.depthMap
        /\ islandMap' = maps.islandMap
        /\ rootsDone' = Len(RootNodes(ns))
        /\ simNodes' = sn
        /\ simLinks' = NewSimLinks(es, sn)
        /\ prevNodeIds' = IdsOf(ns)
        /\ droppedIds' = droppedIds \cup (IdsOf(simNodes) \ IdsOf(ns))
        /\ rng' = (rng + 3 * CreatedBefore(simNodes, ns, Len(ns) + 1)) % RngPeriod
        /\ isSimulationActive' = TRUE
        /\ needsRedraw' = TRUE
        /\ simulations' = EnsureSimulation(simulations)
        /\ alpha' = AlphaReheat
        /\ simRunning' = TRUE

(***************************************************************************)
(* Node colours.  A colour is the triple the code formats as               *)
(* "hsl(h, s%, l%)".                                                       *)
(***************************************************************************)
\* SPECTRUM_CONFIG
StartHue == 0

EndHue == 270

Saturation == 85

Lightness == 55

SpectrumMaxDepth == 8

MinSaturation == 50

SaturationStep == 5

IslandHueOffsetsShort == <<0, 120, 240, 60, 180, 300, 30, 150, 270, 0>>

\* ISLAND_HUE_OFFSETS
IslandHueOffsets == <<0, 120, 240, 60, 180, 300, 30, 150, 270, 90>>

Max(a, b) == IF a >= b THEN a ELSE b

\* Math.round(startHue + (endHue - startHue) * Math.min(depth / maxDepth, 1))
HueOfDepth(depth) ==
    LET d == Min(depth, SpectrumMaxDepth)
    IN  (2 * (StartHue * SpectrumMaxDepth + (EndHue - StartHue) * d) + SpectrumMaxDepth)
            \div (2 * SpectrumMaxDepth)

\* getColorByDepth
getColorByDepth(depth) ==
    [h |-> HueOfDepth(depth),
     s |-> IF depth > SpectrumMaxDepth
           THEN Max(MinSaturation, Saturation - (depth - SpectrumMaxDepth) * SaturationStep)
           ELSE Saturation,
     l |-> Lightness]

\* baseColor.match(/hsl\((\d+),\s*(\d+)%,\s*(\d+)%\)/): the pattern matches
\* when the three components were formatted as unsigned whole numbers
MatchesHsl(c) == c.h \in Nat /\ c.s \in Nat /\ c.l \in Nat

\* getColorByDepthAndIsland
getColorByDepthAndIsland(depth, islandIndex) ==
    LET baseColor == getColorByDepth(depth)
    IN  IF islandIndex = 0 THEN baseColor
        ELSE IF ~MatchesHsl(baseColor) THEN baseColor
        ELSE LET hueOffset == IslandHueOffsets[(islandIndex % Len(IslandHueOffsets)) + 1]
             IN  [h |-> (baseColor.h + hueOffset) % 360, s |-> baseColor.s, l |-> baseColor.l]

NoColor == [h |-> 0 - 1, s |-> 0 - 1, l |-> 0 - 1]

\* no colour has been asked for
ColorIdle ==
    /\ colorArgs = [depth |-> 0, islandIndex |-> 0]
    /\ colorOut = NoColor

\* a caller asks for the colour of a node
GetColor ==
    /\ colorOut = NoColor
    /\ colorOut' = getColorByDepthAndIsland(colorArgs.depth, colorArgs.islandIndex)
    /\ UNCHANGED <<topoVars, propVars, mergeVars, simVars, loopVars, lifeVars, viewVars, now,
                   colorArgs, storeVars, appVars>>

(***************************************************************************)
(* useGraphState at rest                                                   *)
(***************************************************************************)
EmptyState == [nodes |-> <<>>, edges |-> <<>>, logs |-> <<>>]

NoItem == <<>>

NoTimeout == 0 - 1

\* the hook has not been used
StoreIdle ==
    /\ graphState = EmptyState
    /\ isLoaded = FALSE
    /\ saveTimeout = NoTimeout
    /\ localStorage = NoItem
    /\ contextRef = <<>>
    /\ contextNodesLengthRef = 0
    /\ pageOpen = TRUE
    /\ contextCalls = 0
    /\ logIds = 0

\* the QueryClient runs no request
NetIdle ==
    /\ fetchKind = "none"
    /\ fetchState = "idle"
    /\ failureCount = 0
    /\ attempts = <<>>

\* typoDialog.spellCheck while it is null
NoSpellCheck == [original |-> <<>>, corrected |-> <<>>, corrections |-> <<>>, hasErrors |-> FALSE]

MutationKinds == {"seed", "expand", "similarity"}

NoMutation == 0

\* the page as it first renders: an empty input, a closed dialog, no request
HomeIdle ==
    /\ value = <<>>
    /\ debouncedInput = <<>>
    /\ debounceTimer = NoTimeout
    /\ showSuggestions = FALSE
    /\ isFocused = FALSE
    /\ typoDialog = [isOpen |-> FALSE, spellCheck |-> NoSpellCheck]
    /\ homeExpandingNodeId = NoNode
    /\ mutations = {}
    /\ mutationId = 0
    /\ currentMutation = [kind \in MutationKinds |-> NoMutation]

AppIdle == NetIdle /\ HomeIdle

(***************************************************************************)
(* Text.  A string is the sequence of its characters; the alphabet is the  *)
(* letters a, c, e, h, t in both cases and the space.                      *)
(***************************************************************************)
LowerLetters == {"a", "c", "e", "h", "t"}

UpperOf == ("a" :> "A") @@ ("c" :> "C") @@ ("e" :> "E") @@ ("h" :> "H") @@ ("t" :> "T")

LowerOf == ("A" :> "a") @@ ("C" :> "c") @@ ("E" :> "e") @@ ("H" :> "h") @@ ("T" :> "t")

\* String.prototype.toUpperCase
toUpperCase(text) == [i \in DOMAIN text |-> IF text[i] \in DOMAIN UpperOf THEN UpperOf[text[i]] ELSE text[i]]

\* String.prototype.toLowerCase
toLowerCase(text) == [i \in DOMAIN text |-> IF text[i] \in DOMAIN LowerOf THEN LowerOf[text[i]] ELSE text[i]]

IsSpace(c) == c = " "

RECURSIVE TrimStart(_)
TrimStart(text) ==
    IF text # <<>> /\ IsSpace(Head(text)) THEN TrimStart(Tail(text)) ELSE text

RECURSIVE TrimEnd(_)
TrimEnd(text) ==
    IF text # <<>> /\ IsSpace(text[Len(text)])
    THEN TrimEnd(SubSeq(text, 1, Len(text) - 1))
    ELSE text

\* String.prototype.trim
trim(text) == TrimEnd(TrimStart(text))

\* String.prototype.includes
includes(text, part) ==
    \E i \in 0..(Len(text) - Len(part)) : SubSeq(text, i + 1, i + Len(part)) = part

\* String.prototype.slice(from), String.prototype.slice(0, to), 0-based
SliceFrom(text, from) == SubSeq(text, from + 1, Len(text))

SliceTo(text, to) == SubSeq(text, 1, to)

(***************************************************************************)
(* lib/spell-check.ts                                                      *)
(***************************************************************************)
\* COMMON_TYPOS, the entries whose keys can be written in the alphabet
CommonTypos ==
    (<<"t", "e", "h">> :> <<"t", "h", "e">>) @@ (<<"h", "t", "e">> :> <<"t", "h", "e">>)

\* matchCase
matchCase(original, suggestion) ==
    IF original = <<>> THEN suggestion
    ELSE IF original = toUpperCase(original) THEN toUpperCase(suggestion)
    ELSE IF /\ <<Head(original)>> = toUpperCase(<<Head(original)>>)
            /\ Tail(original) = toLowerCase(Tail(original))
    THEN toUpperCase(<<Head(suggestion)>>) \o Tail(suggestion)
    ELSE toLowerCase(suggestion)

\* text.split(/(\s+)/): the runs of whitespace and of other characters, in
\* order (the empty strings split() puts before a leading and after a
\* trailing run are left out: they are no key of COMMON_TYPOS and have
\* length 0)
RECURSIVE SplitRuns(_, _)
SplitRuns(text, acc) ==
    IF text = <<>> THEN acc
    ELSE IF acc # <<>> /\ IsSpace(acc[Len(acc)][1]) = IsSpace(Head(text))
    THEN SplitRuns(Tail(text), [acc EXCEPT ![Len(acc)] = Append(@, Head(text))])
    ELSE SplitRuns(Tail(text), Append(acc, <<Head(text)>>))

\* for (const segment of words) { ... }
RECURSIVE FindCorrections(_, _, _)
FindCorrections(words, position, corrections) ==
    IF words = <<>> THEN corrections
    ELSE LET segment == Head(words)
             wordLower == toLowerCase(segment)
         IN  FindCorrections(Tail(words), position + Len(segment),
                 IF ~IsSpace(segment[1]) /\ wordLower \in DOMAIN CommonTypos
                 THEN Append(corrections, [word |-> segment,
                                           suggestion |-> CommonTypos[wordLower],
                                           position |-> position])
                 ELSE corrections)

\* for (const correction of [...corrections].reverse()) { ... }
RECURSIVE ApplyCorrections(_, _)
ApplyCorrections(corrected, corrections) ==
    IF corrections = <<>> THEN corrected
    ELSE LET correction == corrections[Len(corrections)]
             before == SliceTo(corrected, correction.position)
             after == SliceFrom(corrected, correction.position + Len(correction.word))
             fixedWord == matchCase(correction.word, correction.suggestion)
         IN  ApplyCorrections(before \o fixedWord \o after,
                              SubSeq(corrections, 1, Len(corrections) - 1))

\* checkSpelling
checkSpelling(text) ==
    LET corrections == FindCorrections(SplitRuns(text, <<>>), 0, <<>>)
    IN  [original |-> text,
         corrected |-> ApplyCorrections(text, corrections),
         corrections |-> corrections,
         hasErrors |-> Len(corrections) > 0]

(***************************************************************************)
(* lib/fuzzy-match.ts                                                      *)
(***************************************************************************)
Min3(a, b, c) == IF a <= b /\ a <= c THEN a ELSE IF b <= c THEN b ELSE c

\* one row of the matrix: row[0] = i, then the columns 1..a.length; a
\* sequence's element j + 1 is column j
RECURSIVE FillRow(_, _, _, _)
FillRow(prevRow, a, ch, row) ==
    IF Len(row) = Len(a) + 1 THEN row
    ELSE LET j == Len(row)
         IN  FillRow(prevRow, a, ch,
                 Append(row, IF ch = a[j]
                             THEN prevRow[j]
                             ELSE Min3(prevRow[j] + 1, row[j] + 1, prevRow[j + 1] + 1)))

RECURSIVE FillMatrix(_, _, _, _)
FillMatrix(a, b, i, prevRow) ==
    IF i > Len(b) THEN prevRow
    ELSE FillMatrix(a, b, i + 1, FillRow(prevRow, a, b[i], <<i>>))

\* levenshteinDistance
levenshteinDistance(a, b) ==
    IF Len(a) = 0 THEN Len(b)
    ELSE IF Len(b) = 0 THEN Len(a)
    ELSE FillMatrix(a, b, 1, [j \in 1..(Len(a) + 1) |-> j - 1])[Len(a) + 1]

FuzzyThresholdTenths == 6

FuzzyMaxResults == 5

\* similarityScore(a, b) >= threshold, for threshold = FuzzyThresholdTenths / 10
ScoreAtLeastThreshold(a, b) ==
    LET distance == levenshteinDistance(toLowerCase(a), toLowerCase(b))
        maxLength == Max(Len(a), Len(b))
    IN  maxLength = 0 \/ 10 * (maxLength - distance) >= FuzzyThresholdTenths * maxLength

\* findFuzzyMatches: the labels of the matching nodes, in the order of the
\* node list (the sort by score is left out: the model lets the user pick any
\* of the matches)
findFuzzyMatches(input, ns) ==
    LET inputLower == trim(toLowerCase(input))
        IsMatch(node) ==
            LET labelLower == toLowerCase(node.label)
            IN  \/ ScoreAtLeastThreshold(inputLower, labelLower)
                \/ includes(labelLower, inputLower)
                \/ includes(inputLower, labelLower)
        found == SelectSeq(ns, IsMatch)
    IN  IF Len(inputLower) < 2 THEN <<>>
        ELSE [i \in 1..Min(Len(found), FuzzyMaxResults) |-> found[i].label]

(***************************************************************************)
(* Requests: customFetch and the QueryClient's retry options.  An attempt  *)
(* ends with what fetch() did: a response with a status, a TypeError whose *)
(* message names fetch, or another failure (an abort, a body that is not   *)
(* JSON).                                                                  *)
(***************************************************************************)
MaxRetries == 2

\* response.ok
ResponseOk(status) == 200 <= status /\ status <= 299

\* customFetch: the value it resolves with or the error it throws; hasStatus
\* says whether that object has a `status` property
customFetch(outcome) ==
    IF outcome.type = "response"
    THEN [ok |-> ResponseOk(outcome.status), hasStatus |-> TRUE, status |-> outcome.status]
    ELSE IF outcome.type = "typeError"
    THEN [ok |-> FALSE, hasStatus |-> TRUE, status |-> 0]
    ELSE [ok |-> FALSE, hasStatus |-> FALSE, status |-> 0]

QueryRetryAnyStatus(count, error) == count < MaxRetries

\* defaultOptions.queries.retry
QueryRetry(count, error) ==
    IF error.hasStatus /\ error.status >= 400 /\ error.status < 500
    THEN FALSE
    ELSE count < MaxRetries

\* defaultOptions.mutations.retry
MutationRetry(count, error) == FALSE

\* the retry option that applies to a request
ShouldRetry(kind, count, error) ==
    IF kind = "query" THEN QueryRetry(count, error) ELSE MutationRetry(count, error)

\* a query or a mutation starts: its first attempt is under way
StartFetch(kind) ==
    /\ fetchState = "idle"
    /\ fetchKind' = kind
    /\ fetchState' = "fetching"
    /\ failureCount' = 0
    /\ attempts' = <<>>
    /\ UNCHANGED <<topoVars, propVars, mergeVars, simVars, loopVars, lifeVars, viewVars, now,
                   colorVars, storeVars, homeVars>>

\* an attempt ends: the request succeeds, or the retry option is asked with
\* the failures so far and the error, and the request is retried or fails
AttemptSettles(outcome) ==
    /\ fetchState = "fetching"
    /\ LET result == customFetch(outcome)
       IN  /\ attempts' = Append(attempts, result)
           /\ IF result.ok
              THEN fetchState' = "success" /\ failureCount' = failureCount
              ELSE IF ShouldRetry(fetchKind, failureCount, result)
              THEN fetchState' = "fetching" /\ failureCount' = failureCount + 1
              ELSE fetchState' = "error" /\ failureCount' = failureCount
    /\ UNCHANGED <<topoVars, propVars, mergeVars, simVars, loopVars, lifeVars, viewVars, now,
                   colorVars, storeVars, fetchKind, homeVars>>

(***************************************************************************)
(* useGraphState.  A stored node is its id and label, an edge its source   *)
(* and target, a log entry its id and timestamp (ms).  An ISO timestamp is *)
(* its whole seconds and its milliseconds.                                 *)
(***************************************************************************)
MaxContextNodes == 10

StorageDebounceMs == 500

engineUnchanged ==
    UNCHANGED <<topoVars, propVars, mergeVars, simVars, loopVars, lifeVars, viewVars, colorVars,
                appVars>>

\* `${e.source}->${e.target}`
EdgeKey(e) == <<e.source, e.target>>

EdgeKeysOf(es) == {EdgeKey(es[i]) : i \in DOMAIN es}

\* addNode's updater
addNode(prev, node) ==
    IF \E i \in DOMAIN prev.nodes : prev.nodes[i].id = node.id
    THEN prev
    ELSE [prev EXCEPT !.nodes = Append(@, node)]

AllNewNodes(prev, newNodes) == newNodes

\* newNodes.filter((n) => !existingIds.has(n.id))
UniqueNewNodes(prev, newNodes) ==
    SelectSeq(newNodes, LAMBDA n : n.id \notin IdsOf(prev.nodes))

\* addNodes' updater
addNodes(prev, newNodes) ==
    LET uniqueNewNodes == UniqueNewNodes(prev, newNodes)
    IN  IF uniqueNewNodes = <<>> THEN prev
        ELSE [prev EXCEPT !.nodes = @ \o uniqueNewNodes]

\* newEdges.filter(...): both ends are valid node ids and the pair is not stored
UniqueNewEdges(prev, validNodeIds, newEdges) ==
    SelectSeq(newEdges, LAMBDA e :
        /\ e.source \in validNodeIds
        /\ e.target \in validNodeIds
        /\ EdgeKey(e) \notin EdgeKeysOf(prev.edges))

\* addNodesAndEdges' updater
addNodesAndEdges(prev, newNodes, newEdges) ==
    LET updatedNodes == prev.nodes \o UniqueNewNodes(prev, newNodes)
    IN  [prev EXCEPT !.nodes = updatedNodes,
                     !.edges = @ \o UniqueNewEdges(prev, IdsOf(updatedNodes), newEdges)]

\* addEdge's updater
addEdge(prev, edge) ==
    IF \E i \in DOMAIN prev.edges :
          prev.edges[i].source = edge.source /\ prev.edges[i].target = edge.target
    THEN prev
    ELSE [prev EXCEPT !.edges = Append(@, edge)]

\* addEdges' updater
addEdges(prev, newEdges) ==
    LET uniqueNewEdges == UniqueNewEdges(prev, IdsOf(prev.nodes), newEdges)
    IN  IF uniqueNewEdges = <<>> THEN prev
        ELSE [prev EXCEPT !.edges = @ \o uniqueNewEdges]

\* addLogEntry's updater
addLogEntry(prev, id, t) ==
    [prev EXCEPT !.logs = <<[id |-> id, timestamp |-> t]>> \o @]

\* Date.prototype.toISOString
toISOString(t) == [seconds |-> t \div 1000, millis |-> t % 1000]

\* new Date(log.timestamp)
NewDate(iso) == iso.seconds * 1000 + iso.millis

\* the timer callback's persistedState, as JSON.stringify writes it
PersistedState(st) ==
    [nodes |-> st.nodes,
     edges |-> st.edges,
     logs |-> [i \in DOMAIN st.logs |->
                  [id |-> st.logs[i].id, timestamp |-> toISOString(st.logs[i].timestamp)]]]

\* loadFromStorage
loadFromStorage(item) ==
    IF item = NoItem THEN EmptyState
    ELSE LET parsed == item[1]
         IN  [nodes |-> parsed.nodes,
              edges |-> parsed.edges,
              logs |-> [i \in DOMAIN parsed.logs |->
                           [id |-> parsed.logs[i].id,
                            timestamp |-> NewDate(parsed.logs[i].timestamp)]]]

\* the persistence effect after a commit at time t: clearTimeout, setTimeout
ScheduleSave(pending, t) == t + StorageDebounceMs

\* setState(updater) and the commit it causes: an updater that returns prev
\* causes no render, so the persistence effect does not run
SetState(next, returnedPrev) ==
    /\ graphState' = next
    /\ saveTimeout' = IF returnedPrev THEN saveTimeout ELSE ScheduleSave(saveTimeout, now)
    /\ UNCHANGED <<isLoaded, localStorage, contextRef, contextNodesLengthRef, pageOpen,
                   contextCalls, logIds, now>>
    /\ engineUnchanged

\* the mount effects: setIsLoaded(true), then the persistence effect of the
\* commit that follows
MountEffects ==
    /\ pageOpen
    /\ ~isLoaded
    /\ isLoaded' = TRUE
    /\ saveTimeout' = ScheduleSave(saveTimeout, now)
    /\ UNCHANGED <<graphState, localStorage, contextRef, contextNodesLengthRef, pageOpen,
                   contextCalls, logIds, now>>
    /\ engineUnchanged

AddNode(node) ==
    pageOpen /\ isLoaded /\ SetState(addNode(graphState, node),
             addNode(graphState, node) = graphState)

AddNodes(newNodes) ==
    pageOpen /\ isLoaded /\ SetState(addNodes(graphState, newNodes),
             addNodes(graphState, newNodes) = graphState)

AddNodesAndEdges(newNodes, newEdges) ==
    pageOpen /\ isLoaded /\ SetState(addNodesAndEdges(graphState, newNodes, newEdges), FALSE)

AddEdge(edge) ==
    pageOpen /\ isLoaded /\ SetState(addEdge(graphState, edge),
             addEdge(graphState, edge) = graphState)

AddEdges(newEdges) ==
    pageOpen /\ isLoaded /\ SetState(addEdges(graphState, newEdges),
             addEdges(graphState, newEdges) = graphState)

\* clearGraph: setState of a new object, so the commit always happens
ClearGraph ==
    /\ pageOpen
    /\ isLoaded
    /\ graphState' = EmptyState
    /\ saveTimeout' = ScheduleSave(saveTimeout, now)
    /\ UNCHANGED <<isLoaded, localStorage, contextRef, contextNodesLengthRef, pageOpen,
                   contextCalls, logIds, now>>
    /\ engineUnchanged

\* addLogEntry(topic, reasoning, nodeCount)
AddLogEntry ==
    /\ pageOpen
    /\ isLoaded
    /\ logIds' = logIds + 1
    /\ graphState' = addLogEntry(graphState, logIds + 1, now)
    /\ saveTimeout' = ScheduleSave(saveTimeout, now)
    /\ UNCHANGED <<isLoaded, localStorage, contextRef, contextNodesLengthRef, pageOpen,
                   contextCalls, now>>
    /\ engineUnchanged

\* the debounce timer's callback
SaveTimeoutFires ==
    /\ pageOpen
    /\ saveTimeout # NoTimeout
    /\ now >= saveTimeout
    /\ localStorage' = <<PersistedState(graphState)>>
    /\ saveTimeout' = NoTimeout
    /\ UNCHANGED <<graphState, isLoaded, contextRef, contextNodesLengthRef, pageOpen,
                   contextCalls, logIds, now>>
    /\ engineUnchanged

\* nodes.slice(-MAX_CONTEXT_NODES).map((n) => n.label)
RecentLabels(ns) ==
    LET from == IF Len(ns) > MaxContextNodes THEN Len(ns) - MaxContextNodes + 1 ELSE 1
        recent == SubSeq(ns, from, Len(ns))
    IN  [i \in DOMAIN recent |-> recent[i].label]

\* if (nodes.length !== contextNodesLengthRef.current)
MemoStale(ns, length) == Len(ns) # length

\* getContext(); its result is contextRef.current afterwards
GetContext ==
    /\ pageOpen
    /\ isLoaded
    /\ contextCalls' = contextCalls + 1
    /\ IF MemoStale(graphState.nodes, contextNodesLengthRef)
       THEN /\ contextNodesLengthRef' = Len(graphState.nodes)
            /\ contextRef' = RecentLabels(graphState.nodes)
       ELSE UNCHANGED <<contextRef, contextNodesLengthRef>>
    /\ UNCHANGED <<graphState, isLoaded, saveTimeout, localStorage, pageOpen, logIds, now>>
    /\ engineUnchanged

\* the page is closed: its timers and its React state are gone; graphState
\* keeps what the page showed
ClosePage ==
    /\ pageOpen
    /\ pageOpen' = FALSE
    /\ saveTimeout' = NoTimeout
    /\ UNCHANGED <<graphState, isLoaded, localStorage, contextRef, contextNodesLengthRef,
                   contextCalls, logIds, now>>
    /\ engineUnchanged

\* the page is opened again: useState(() => loadFromStorage()), fresh refs
OpenPage ==
    /\ ~pageOpen
    /\ pageOpen' = TRUE
    /\ graphState' = loadFromStorage(localStorage)
    /\ isLoaded' = FALSE
    /\ contextRef' = <<>>
    /\ contextNodesLengthRef' = 0
    /\ UNCHANGED <<saveTimeout, localStorage, contextCalls, logIds, now>>
    /\ engineUnchanged

(***************************************************************************)
(* The page: Home, its OmniBar and its typo dialog.  A backend request is  *)
(* a mutation, never retried; a request in flight is its id, its kind, its *)
(* topic, whether a node click started it, and, for a similarity check,    *)
(* the node list of the render whose handleSubmit awaits it.               *)
(***************************************************************************)
FuzzyDebounceMs == 300

FuzzyMinLength == 2

\* mutation.isPending of one useMutation observer
IsPending(kind) == \E m \in mutations : m.id = currentMutation[kind]

\* Home: isLoading
isLoading == IsPending("seed") \/ IsPending("expand") \/ IsPending("similarity")

\* useFuzzySearch: matches
Matches(debounced, ns) ==
    IF Len(trim(debounced)) < FuzzyMinLength THEN <<>> ELSE findFuzzyMatches(debounced, ns)

\* useFuzzySearch: spellCheck, NoSpellCheck for null
SpellCheckOf(debounced) ==
    IF Len(trim(debounced)) < FuzzyMinLength THEN NoSpellCheck ELSE checkSpelling(debounced)

\* useFuzzySearch: hasExactMatch
HasExactMatch(debounced, ns) ==
    LET inputLower == trim(toLowerCase(debounced))
    IN  /\ Len(inputLower) # 0
        /\ \E i \in DOMAIN ns : toLowerCase(ns[i].label) = inputLower

\* OmniBar: the effect on [matches, isFocused, value]
SuggestionsEffect(v, debounced, ns, focused) ==
    /\ Len(Matches(debounced, ns)) > 0
    /\ focused
    /\ Len(trim(v)) >= 2

\* what no action of the page touches
pageUnchanged ==
    UNCHANGED <<topoVars, propVars, mergeVars, simVars, loopVars, lifeVars, viewVars, colorVars,
                netVars, now, isLoaded, localStorage, pageOpen>>

\* mutation.mutate(variables): the observer leaves the request it tracked,
\* which goes on, and tracks the new one
Mutate(inFlight, kind, topic, click, ns) ==
    /\ mutationId' = mutationId + 1
    /\ mutations' = inFlight \cup
           {[id |-> mutationId + 1, kind |-> kind, topic |-> topic, click |-> click, nodes |-> ns]}
    /\ currentMutation' = [currentMutation EXCEPT ![kind] = mutationId + 1]

\* what getContext() returns in a render whose node list is ns
ContextOf(ns) ==
    IF MemoStale(ns, contextNodesLengthRef) THEN RecentLabels(ns) ELSE contextRef

\* getContext() of a render whose node list is ns
CallGetContext(ns) ==
    /\ contextCalls' = contextCalls + 1
    /\ contextRef' = ContextOf(ns)
    /\ contextNodesLengthRef' = IF MemoStale(ns, contextNodesLengthRef) THEN Len(ns)
                                ELSE contextNodesLengthRef

\* Home: createNewRoot(topic)
createNewRoot(inFlight, topic) == Mutate(inFlight, "seed", topic, FALSE, <<>>)

\* Home: performExpand(topic) of a render whose node list is ns
performExpand(inFlight, topic, ns) ==
    IF ns = <<>>
    THEN /\ mutations' = inFlight
         /\ UNCHANGED <<mutationId, currentMutation, contextCalls, contextRef,
                        contextNodesLengthRef>>
    ELSE /\ CallGetContext(ns)
         /\ Mutate(inFlight, "expand", topic, FALSE, <<>>)

\* Home: handleSubmit(topic), up to its await
handleSubmit(topic) ==
    IF Len(graphState.nodes) = 0
    THEN /\ createNewRoot(mutations, topic)
         /\ UNCHANGED <<contextCalls, contextRef, contextNodesLengthRef>>
    ELSE /\ CallGetContext(graphState.nodes)
         /\ IF Len(ContextOf(graphState.nodes)) = 0
            THEN createNewRoot(mutations, topic)
            ELSE Mutate(mutations, "similarity", topic, FALSE, graphState.nodes)

\* OmniBar: handleFocus
Focus ==
    /\ pageOpen /\ isLoaded
    /\ ~isLoading
    /\ ~isFocused
    /\ isFocused' = TRUE
    /\ showSuggestions' = SuggestionsEffect(value, debouncedInput, graphState.nodes, TRUE)
    /\ UNCHANGED <<value, debouncedInput, debounceTimer, typoDialog, homeExpandingNodeId,
                   mutations, mutationId, currentMutation, graphState, saveTimeout, logIds,
                   contextCalls, contextRef, contextNodesLengthRef>>
    /\ pageUnchanged

\* OmniBar: handleBlur and its timer's callback
Blur ==
    /\ pageOpen /\ isLoaded
    /\ isFocused
    /\ isFocused' = FALSE
    /\ showSuggestions' = FALSE
    /\ UNCHANGED <<value, debouncedInput, debounceTimer, typoDialog, homeExpandingNodeId,
                   mutations, mutationId, currentMutation, graphState, saveTimeout, logIds,
                   contextCalls, contextRef, contextNodesLengthRef>>
    /\ pageUnchanged

\* the input's onChange: setValue, then useFuzzySearch's debounce effect and
\* the suggestions effect
TypeValue(text) ==
    /\ pageOpen /\ isLoaded
    /\ ~isLoading
    /\ isFocused
    /\ text # value
    /\ value' = text
    /\ debounceTimer' = now + FuzzyDebounceMs
    /\ showSuggestions' = SuggestionsEffect(text, debouncedInput, graphState.nodes, isFocused)
    /\ UNCHANGED <<debouncedInput, isFocused, typoDialog, homeExpandingNodeId,
                   mutations, mutationId, currentMutation, graphState, saveTimeout, logIds,
                   contextCalls, contextRef, contextNodesLengthRef>>
    /\ pageUnchanged

\* the debounce timer's callback: setDebouncedInput(input); the suggestions
\* effect runs when the matches are computed anew
DebounceFires ==
    /\ pageOpen
    /\ debounceTimer # NoTimeout
    /\ now >= debounceTimer
    /\ debouncedInput' = value
    /\ debounceTimer' = NoTimeout
    /\ showSuggestions' = IF value # debouncedInput
                          THEN SuggestionsEffect(value, value, graphState.nodes, isFocused)
                          ELSE showSuggestions
    /\ UNCHANGED <<value, isFocused, typoDialog, homeExpandingNodeId,
                   mutations, mutationId, currentMutation, graphState, saveTimeout, logIds,
                   contextCalls, contextRef, contextNodesLengthRef>>
    /\ pageUnchanged

\* OmniBar: handleKeyDown on Escape
HideSuggestions ==
    /\ pageOpen /\ isLoaded
    /\ ~isLoading
    /\ showSuggestions /\ Len(Matches(debouncedInput, graphState.nodes)) > 0
    /\ showSuggestions' = FALSE
    /\ UNCHANGED <<value, debouncedInput, debounceTimer, isFocused, typoDialog,
                   homeExpandingNodeId, mutations, mutationId, currentMutation, graphState,
                   saveTimeout, logIds, contextCalls, contextRef, contextNodesLengthRef>>
    /\ pageUnchanged

\* OmniBar: handleSelectMatch(match); a new value runs the debounce effect
\* and the suggestions effect
handleSelectMatch(label) ==
    /\ value' = label
    /\ isFocused' = TRUE
    /\ IF label # value \/ ~isFocused
       THEN showSuggestions' = SuggestionsEffect(label, debouncedInput, graphState.nodes, TRUE)
       ELSE showSuggestions' = FALSE
    /\ debounceTimer' = IF label # value THEN now + FuzzyDebounceMs ELSE debounceTimer
    /\ UNCHANGED <<debouncedInput, typoDialog, homeExpandingNodeId,
                   mutations, mutationId, currentMutation, graphState, saveTimeout, logIds,
                   contextCalls, contextRef, contextNodesLengthRef>>
    /\ pageUnchanged

\* OmniBar: handleKeyDown on Tab, or a click on a suggestion
SelectMatch(index) ==
    /\ pageOpen /\ isLoaded
    /\ ~isLoading
    /\ showSuggestions
    /\ index \in DOMAIN Matches(debouncedInput, graphState.nodes)
    /\ handleSelectMatch(Matches(debouncedInput, graphState.nodes)[index])

\* OmniBar: handleSubmit with matches[selectedIndex] = matches[index], and
\* Home's handleTypoDetected or handleSubmit as it calls them
OmniSubmit(index, maxMutations) ==
    /\ pageOpen /\ isLoaded
    /\ trim(value) # <<>>
    /\ ~isLoading
    /\ LET matches == Matches(debouncedInput, graphState.nodes)
           spellCheck == SpellCheckOf(debouncedInput)
       IN  IF showSuggestions /\ Len(matches) > 0
           THEN /\ index \in DOMAIN matches
                /\ handleSelectMatch(matches[index])
           ELSE /\ index = 1
                /\ IF spellCheck.hasErrors /\ ~HasExactMatch(debouncedInput, graphState.nodes)
                   THEN /\ typoDialog' = [isOpen |-> TRUE, spellCheck |-> spellCheck]
                        /\ UNCHANGED <<omniVars, homeExpandingNodeId, mutations, mutationId,
                                       currentMutation, graphState, saveTimeout, logIds,
                                       contextCalls, contextRef, contextNodesLengthRef>>
                        /\ pageUnchanged
                   ELSE /\ mutationId + 2 <= maxMutations
                        /\ handleSubmit(trim(value))
                        /\ value' = <<>>
                        /\ debounceTimer' = now + FuzzyDebounceMs
                        /\ showSuggestions' = FALSE
                        /\ UNCHANGED <<debouncedInput, isFocused, typoDialog,
                                       homeExpandingNodeId, graphState, saveTimeout, logIds>>
                        /\ pageUnchanged

\* Home: handleTypoAccept(spellCheck.corrected), the dialog's first button
TypoAccept(maxMutations) ==
    /\ pageOpen /\ isLoaded
    /\ typoDialog.isOpen
    /\ mutationId + 2 <= maxMutations
    /\ typoDialog' = [isOpen |-> FALSE, spellCheck |-> NoSpellCheck]
    /\ handleSubmit(typoDialog.spellCheck.corrected)
    /\ UNCHANGED <<omniVars, homeExpandingNodeId, graphState, saveTimeout, logIds>>
    /\ pageUnchanged

\* Home: handleTypoReject(spellCheck.original), the dialog's second button
TypoReject(maxMutations) ==
    /\ pageOpen /\ isLoaded
    /\ typoDialog.isOpen
    /\ mutationId + 2 <= maxMutations
    /\ typoDialog' = [isOpen |-> FALSE, spellCheck |-> NoSpellCheck]
    /\ handleSubmit(typoDialog.spellCheck.original)
    /\ UNCHANGED <<omniVars, homeExpandingNodeId, graphState, saveTimeout, logIds>>
    /\ pageUnchanged

\* Home: handleTypoCancel, a click on the dialog's overlay
TypoCancel ==
    /\ pageOpen /\ isLoaded
    /\ typoDialog.isOpen
    /\ typoDialog' = [isOpen |-> FALSE, spellCheck |-> NoSpellCheck]
    /\ UNCHANGED <<omniVars, homeExpandingNodeId, mutations, mutationId, currentMutation,
                   graphState, saveTimeout, logIds, contextCalls, contextRef,
                   contextNodesLengthRef>>
    /\ pageUnchanged

\* Home: handleNodeClick(node), a click on a node of the canvas, which the
\* open dialog's overlay covers
NodeClick(node, maxMutations) ==
    /\ pageOpen /\ isLoaded
    /\ ~typoDialog.isOpen
    /\ node \in Range(graphState.nodes)
    /\ ~isLoading
    /\ mutationId + 1 <= maxMutations
    /\ homeExpandingNodeId' = node.id
    /\ CallGetContext(graphState.nodes)
    /\ Mutate(mutations, "expand", node.label, TRUE, <<>>)
    /\ UNCHANGED <<omniVars, typoDialog, graphState, saveTimeout, logIds>>
    /\ pageUnchanged

\* Home: handleClear, the OmniBar's clear button
HandleClear ==
    /\ pageOpen /\ isLoaded
    /\ ~isLoading
    /\ Len(graphState.nodes) > 0
    /\ graphState' = EmptyState
    /\ saveTimeout' = ScheduleSave(saveTimeout, now)
    /\ showSuggestions' = SuggestionsEffect(value, debouncedInput, <<>>, isFocused)
    /\ UNCHANGED <<value, debouncedInput, debounceTimer, isFocused, typoDialog,
                   homeExpandingNodeId, mutations, mutationId, currentMutation, logIds,
                   contextCalls, contextRef, contextNodesLengthRef>>
    /\ pageUnchanged

\* a commit of a new node list: the persistence effect and, the matches
\* being computed anew, the suggestions effect
CommitState(next) ==
    /\ graphState' = next
    /\ saveTimeout' = ScheduleSave(saveTimeout, now)
    /\ showSuggestions' = IF next.nodes # graphState.nodes
                          THEN SuggestionsEffect(value, debouncedInput, next.nodes, isFocused)
                          ELSE showSuggestions

\* seedMutation's request ends: onSuccess with the response, or onError
SeedSettles(m, outcome, node) ==
    /\ pageOpen
    /\ m \in mutations /\ m.kind = "seed"
    /\ mutations' = mutations \ {m}
    /\ IF customFetch(outcome).ok /\ outcome.status = 200
       THEN /\ CommitState(addLogEntry(addNode(graphState, node), logIds + 1, now))
            /\ logIds' = logIds + 1
       ELSE UNCHANGED <<graphState, saveTimeout, showSuggestions, logIds>>
    /\ UNCHANGED <<value, debouncedInput, debounceTimer, isFocused, typoDialog,
                   homeExpandingNodeId, mutationId, currentMutation, contextCalls, contextRef,
                   contextNodesLengthRef>>
    /\ pageUnchanged

ExpandKeepsId(id) == id

\* setExpandingNodeId(null) of expandMutation's onSuccess and onError
ExpandResetsId(id) == NoNode

\* expandMutation's request ends: onSuccess with the response, or onError
ExpandSettles(m, outcome, newNodes, newEdges) ==
    /\ pageOpen
    /\ m \in mutations /\ m.kind = "expand"
    /\ mutations' = mutations \ {m}
    /\ IF customFetch(outcome).ok /\ outcome.status = 200
       THEN /\ CommitState(addLogEntry(addNodesAndEdges(graphState, newNodes, newEdges),
                                       logIds + 1, now))
            /\ logIds' = logIds + 1
       ELSE UNCHANGED <<graphState, saveTimeout, showSuggestions, logIds>>
    /\ homeExpandingNodeId' = ExpandResetsId(homeExpandingNodeId)
    /\ UNCHANGED <<value, debouncedInput, debounceTimer, isFocused, typoDialog,
                   mutationId, currentMutation, contextCalls, contextRef,
                   contextNodesLengthRef>>
    /\ pageUnchanged

\* similarityMutation's request ends and handleSubmit goes on after its
\* await, in the render that called it: its try block, or its catch block
SimilaritySettles(m, outcome, action) ==
    /\ pageOpen
    /\ m \in mutations /\ m.kind = "similarity"
    /\ IF customFetch(outcome).ok /\ outcome.status = 200 /\ action = "new_root"
       THEN /\ createNewRoot(mutations \ {m}, m.topic)
            /\ UNCHANGED <<contextCalls, contextRef, contextNodesLengthRef>>
       ELSE IF (customFetch(outcome).ok /\ outcome.status = 200) \/ ~customFetch(outcome).ok
       THEN performExpand(mutations \ {m}, m.topic, m.nodes)
       ELSE /\ mutations' = mutations \ {m}
            /\ UNCHANGED <<mutationId, currentMutation, contextCalls, contextRef,
                           contextNodesLengthRef>>
    /\ UNCHANGED <<omniVars, typoDialog, homeExpandingNodeId, graphState, saveTimeout, logIds>>
    /\ pageUnchanged

(***************************************************************************)
(* Engine actions                                                          *)
(***************************************************************************)
EngineInit ==
    /\ nodes = <<>>
    /\ edges = <<>>
    /\ rootsDone = 0
    /\ depthMap = EmptyMap
    /\ islandMap = EmptyMap
    /\ expandingNodeId = NoNode
    /\ dimensions = InitialDimensions
    /\ hoveredNode = NoNode
    /\ selectedNode = NoNode
    /\ simNodes = <<>>
    /\ simLinks = <<>>
    /\ prevNodeIds = {}
    /\ needsRedraw = TRUE
    /\ isSimulationActive = FALSE
    /\ alpha = 0
    /\ simRunning = FALSE
    /\ simulations = 0
    /\ rafPending = FALSE
    /\ rafRequests = 0
    /\ rafAt = 0
    /\ lastTime = 0
    /\ renderInit = FALSE
    /\ frameDrew = FALSE
    /\ surface = [transform |-> zoomIdentity, ops |-> <<>>]
    /\ mounted = TRUE
    /\ resizeTimer = FALSE
    /\ transform = zoomIdentity
    /\ zoomTransform = zoomIdentity
    /\ isExpanding = FALSE
    /\ clicks = <<>>
    /\ lastMouseMove = 0
    /\ updates = 0
    /\ rng \in 0..(RngPeriod - 1)
    /\ droppedIds = {}
    /\ now = TimeStep

Init == EngineInit /\ ColorIdle /\ StoreIdle /\ AppIdle

\* the canvas is rendered only while nodes.length > 0: the element that
\* replaces the empty state is a new one, on which d3-zoom holds the identity
CanvasZoom(zoom, hadCanvas, hasCanvas) ==
    IF hadCanvas /\ hasCanvas THEN zoom ELSE zoomIdentity

\* the parent re-renders MindMap with a new `nodes` array
SetNodes(ns) ==
    /\ mounted
    /\ ~renderInit
    /\ updates' = updates + 1
    /\ nodes' = ns
    /\ UpdateEffect(ns, edges, dimensions)
    /\ renderInit' = (renderInit \/ Len(ns) # Len(nodes))
    /\ zoomTransform' = CanvasZoom(zoomTransform, Len(nodes) > 0, Len(ns) > 0)
    /\ UNCHANGED <<edges, propVars, rafPending, rafRequests, rafAt, lastTime, frameDrew,
                   surface, lifeVars, transform, isExpanding, clicks, lastMouseMove, now,
                   hookVars>>

\* the parent re-renders MindMap with a new `edges` array
SetEdges(es) ==
    /\ mounted
    /\ ~renderInit
    /\ updates > 0
    /\ updates' = updates + 1
    /\ edges' = es
    /\ UpdateEffect(nodes, es, dimensions)
    /\ UNCHANGED <<nodes, propVars, loopVars, lifeVars, viewVars, now, hookVars>>

\* the body of the resize timer's callback and the commit it causes
Resize(d) ==
    /\ ~renderInit
    /\ updates > 0
    /\ updates' = updates + 1
    /\ dimensions' = d
    /\ IF d.width # dimensions.width \/ d.height # dimensions.height
       THEN UpdateEffect(nodes, edges, d)
       ELSE /\ needsRedraw' = TRUE
            /\ UNCHANGED <<rootsDone, depthMap, islandMap, simNodes, simLinks, prevNodeIds,
                           rng, droppedIds, isSimulationActive, alpha, simRunning, simulations>>
    /\ renderInit' = TRUE
    /\ UNCHANGED <<nodes, edges, expandingNodeId, hoveredNode, selectedNode,
                   rafPending, rafRequests, rafAt, lastTime, frameDrew, surface,
                   viewVars, now, hookVars>>

\* a window "resize" event followed by the expiry of its timer, with no other
\* step in between
ResizeDebounced(d) ==
    /\ mounted
    /\ ~resizeTimer
    /\ Resize(d)
    /\ UNCHANGED lifeVars

\* updateDimensions: a window "resize" event (re)starts the debounce timer
WindowResize ==
    /\ mounted
    /\ ~renderInit
    /\ resizeTimer' = TRUE
    /\ UNCHANGED <<topoVars, propVars, mergeVars, simVars, loopVars, mounted, viewVars, now, hookVars>>

\* the debounce timer fires; containerRef.current is null once unmounted
ResizeTimeout(d) ==
    /\ resizeTimer
    /\ resizeTimer' = FALSE
    /\ mounted' = mounted
    /\ IF mounted
       THEN Resize(d)
       ELSE UNCHANGED <<topoVars, propVars, mergeVars, simVars, loopVars, viewVars, now, hookVars>>

\* the parent changes the expandingNodeId prop
SetExpanding(e) ==
    /\ mounted
    /\ ~renderInit
    /\ updates > 0
    /\ e # expandingNodeId
    /\ updates' = updates + 1
    /\ expandingNodeId' = e
    /\ renderInit' = TRUE
    /\ UNCHANGED <<topoVars, dimensions, hoveredNode, selectedNode, simNodes, simLinks,
                   prevNodeIds, rng, droppedIds, simVars, rafPending, rafRequests, rafAt,
                   lastTime, frameDrew, surface, lifeVars, viewVars, now, hookVars>>

\* one step of the d3 simulation's timer, with its "tick" and "end" handlers;
\* the forces displace every node
Tick ==
    /\ ~renderInit
    /\ simRunning
    /\ alpha' = alpha - 1
    /\ simNodes' = [j \in DOMAIN simNodes |->
                        [simNodes[j] EXCEPT !.x = @ + 1, !.y = @ + 1, !.vx = 1, !.vy = 1]]
    /\ needsRedraw' = TRUE
    /\ isSimulationActive' = (alpha' > 0)
    /\ simRunning' = (alpha' > 0)
    /\ UNCHANGED <<topoVars, propVars, simLinks, prevNodeIds, updates, rng, droppedIds,
                   simulations, loopVars, lifeVars, viewVars, now, hookVars>>

(***************************************************************************)
(* The render loop                                                         *)
(***************************************************************************)
SixFifths(d) == d + (IF d >= 0 THEN (d + 2) \div 5 ELSE 0 - ((2 - d) \div 5))

\* (target - value) * 0.2, in fixed point, rounded to nearest
Fifth(d) == IF d >= 0 THEN (d + 2) \div 5 ELSE 0 - ((2 - d) \div 5)

TargetScale(id) ==
    IF expandingNodeId = id THEN TargetScaleExpanding
    ELSE IF hoveredNode = id THEN TargetScaleHovered
    ELSE InitialScale

TargetGlow(id) ==
    IF expandingNodeId = id THEN TargetGlowExpanding
    ELSE IF selectedNode = id THEN TargetGlowSelected
    ELSE IF hoveredNode = id THEN TargetGlowHovered
    ELSE InitialGlow

\* the "Update animations" loop body for one node
AnimateNode(n, t, dt) ==
    [n EXCEPT
        !.entranceProgress =
            IF @ < EntranceDuration THEN Min(EntranceDuration, t - n.entranceStartTime) ELSE @,
        !.scale = @ + Fifth(TargetScale(n.id) - @),
        !.glowIntensity = @ + Fifth(TargetGlow(n.id) - @),
        !.pulsePhase =
            IF expandingNodeId = n.id \/ selectedNode = n.id
            THEN @ + dt * (IF expandingNodeId = n.id THEN PulseRateExpanding
                                                     ELSE PulseRateSelected)
            ELSE @]

HasActiveAnimationsNever == FALSE

\* hasActiveAnimations
HasActiveAnimations == \E i \in DOMAIN simNodes : simNodes[i].entranceProgress < EntranceDuration

ShouldRedrawIgnoringExpanding(dirty) ==
    dirty \/ isSimulationActive \/ HasActiveAnimations

\* shouldRedraw, with the dirty flag as the caller sees it
ShouldRedraw(dirty) ==
    dirty \/ isSimulationActive \/ HasActiveAnimations \/ expandingNodeId # NoNode

\* the "Draw links" loop: a link is skipped while an endpoint has a falsy
\* coordinate or has not begun its entrance
DrawLinks(links, sn) ==
    LET drawn == SelectSeq(links, LAMBDA l :
                     /\ sn[l.source].x # 0 /\ sn[l.source].y # 0
                     /\ sn[l.target].x # 0 /\ sn[l.target].y # 0
                     /\ Min(sn[l.source].entranceProgress, sn[l.target].entranceProgress) > 0)
    IN  [i \in DOMAIN drawn |->
            [kind |-> "link",
             from |-> sn[drawn[i].source].id,
             to |-> sn[drawn[i].target].id,
             progress |-> Min(sn[drawn[i].source].entranceProgress,
                              sn[drawn[i].target].entranceProgress)]]

\* the "Draw nodes" loop: a node is skipped until its entrance has begun
DrawNodes(sn) ==
    LET drawn == SelectSeq(sn, LAMBDA n : n.entranceProgress > 0)
    IN  [i \in DOMAIN drawn |->
            [kind |-> "node", from |-> drawn[i].id, to |-> drawn[i].id,
             progress |-> drawn[i].entranceProgress]]

DrawOpsNodesFirst(links, sn) == DrawNodes(sn) \o DrawLinks(links, sn)

\* the draw calls of one redraw, in order
DrawOps(links, sn) == DrawLinks(links, sn) \o DrawNodes(sn)

\* render(): `last` is lastTime and `dirty` needsRedrawRef.current on entry;
\* `requests` counts the frame callbacks the host holds on entry
Render(last, dirty, requests) ==
    /\ lastTime' = now
    /\ IF ~ShouldRedraw(dirty)
       THEN /\ frameDrew' = FALSE
            /\ UNCHANGED <<needsRedraw, simNodes, surface>>
       ELSE LET animated == [i \in DOMAIN simNodes |->
                                AnimateNode(simNodes[i], now, now - last)]
            IN  /\ needsRedraw' = FALSE
                /\ simNodes' = animated
                /\ surface' = [transform |-> transform, ops |-> DrawOps(simLinks, animated)]
                /\ frameDrew' = TRUE
    /\ rafPending' = TRUE
    /\ rafRequests' = requests + 1
    /\ rafAt' = now

CancelFrameNever(requests, pending) == requests

\* cleanup of the render loop effect: cancelAnimationFrame(animationFrameRef.current)
CancelFrame(requests, pending) == IF pending THEN requests - 1 ELSE requests

\* the host runs the requested animation frame callback
Frame ==
    /\ ~renderInit
    /\ rafRequests > 0
    /\ rafAt < now
    /\ Render(lastTime, needsRedraw, rafRequests - 1)
    /\ UNCHANGED <<topoVars, propVars, simLinks, prevNodeIds, updates, rng, droppedIds,
                   isSimulationActive, alpha, simRunning, simulations, renderInit, lifeVars, viewVars,
                   now, hookVars>>

\* the render loop effect re-runs: cleanup of the old loop, start of the new one
RenderEffectInit ==
    /\ renderInit
    /\ renderInit' = FALSE
    /\ IF Len(nodes) = 0
       THEN /\ rafPending' = FALSE
            /\ rafRequests' = CancelFrame(rafRequests, rafPending)
            /\ UNCHANGED <<needsRedraw, simNodes, frameDrew, surface, rafAt, lastTime>>
       ELSE Render(now, TRUE, CancelFrame(rafRequests, rafPending))
    /\ UNCHANGED <<topoVars, propVars, simLinks, prevNodeIds, updates, rng, droppedIds,
                   isSimulationActive, alpha, simRunning, simulations, lifeVars, viewVars, now, hookVars>>

\* time passes
AdvanceClock ==
    /\ ~renderInit
    /\ now + TimeStep <= MaxTime
    /\ now' = now + TimeStep
    /\ UNCHANGED <<topoVars, propVars, mergeVars, simVars, loopVars, lifeVars, viewVars,
                   hookVars>>

(***************************************************************************)
(* Viewport and picking.  Surface coordinates and the transform's x and y  *)
(* are in tenths of a pixel and its k in tenths, so simulation * k +       *)
(* (tx, ty) is exact; a simulation-space point obtained by inverting the   *)
(* transform is kept as exact fractions num / den of a pixel.              *)
(***************************************************************************)
HitRadius == 40

ScaleMin == 2

ScaleMax == 50

ThrottleMs == 16

ClampScaleNone(k) == k

\* scaleExtent([0.2, 5]) as d3-zoom applies it to the scale a gesture asks for
ClampScale(k) == IF k < ScaleMin THEN ScaleMin ELSE IF k > ScaleMax THEN ScaleMax ELSE k

\* what the render's ctx.translate(x, y); ctx.scale(k, k) does to a point
\* drawn at simulation coordinates q
toScreen(t, q) ==
    [x |-> (q.x.num * t.k) \div q.x.den + t.x,
     y |-> (q.y.num * t.k) \div q.y.den + t.y]

toSimulationNoTranslate(t, p) ==
    [x |-> [num |-> p.x, den |-> t.k],
     y |-> [num |-> p.y, den |-> t.k]]

\* graphX = (screenX - transform.x) / transform.k, graphY likewise
toSimulation(t, p) ==
    [x |-> [num |-> p.x - t.x, den |-> t.k],
     y |-> [num |-> p.y - t.y, den |-> t.k]]

\* a SimNode's position as a simulation-space point
PositionOf(n) == [x |-> [num |-> n.x, den |-> 1], y |-> [num |-> n.y, den |-> 1]]

\* dx * dx + dy * dy for dx = node.x - graphX, dy = node.y - graphY, times
\* the square of the common denominator of graphX and graphY
DistanceSquared(n, g) ==
    (n.x * g.x.den - g.x.num) * (n.x * g.x.den - g.x.num)
        + (n.y * g.y.den - g.y.num) * (n.y * g.y.den - g.y.num)

WithinHitRadiusInclusive(n, g) ==
    DistanceSquared(n, g) <= (HitRadius * g.x.den) * (HitRadius * g.x.den)

\* Math.sqrt(dx * dx + dy * dy) < HIT_RADIUS
WithinHitRadius(n, g) ==
    DistanceSquared(n, g) < (HitRadius * g.x.den) * (HitRadius * g.x.den)

\* for (const node of simNodesRef.current) from position i on: the index of
\* the node returned, 0 for null
RECURSIVE ScanNodes(_, _, _)
ScanNodes(sn, i, g) ==
    IF i > Len(sn) THEN 0
    ELSE IF WithinHitRadius(sn[i], g) THEN i
    ELSE ScanNodes(sn, i + 1, g)

findNodeAtPosition(sn, t, p) == ScanNodes(sn, 1, toSimulation(t, p))

\* the zoom behaviour's "zoom" handler, for a gesture (wheel, pinch or drag)
\* that asks for scale k and ends with translation (x, y)
Zoomed(x, y, k) ==
    /\ mounted
    /\ ~renderInit
    /\ Len(nodes) > 0
    /\ zoomTransform' = [x |-> x, y |-> y, k |-> ClampScale(k)]
    /\ transform' = zoomTransform'
    /\ needsRedraw' = TRUE
    /\ UNCHANGED <<topoVars, propVars, mergeVars, isSimulationActive, alpha, simRunning, simulations,
                   loopVars, lifeVars, isExpanding, clicks, lastMouseMove, now, hookVars>>

\* the parent changes the isExpanding prop
SetIsExpanding(b) ==
    /\ mounted
    /\ ~renderInit
    /\ isExpanding' = b
    /\ UNCHANGED <<topoVars, propVars, mergeVars, simVars, loopVars, lifeVars, transform, zoomTransform,
                   clicks, lastMouseMove, now, hookVars>>

\* handleCanvasClick for a click at surface point p
handleCanvasClick(p) ==
    /\ mounted
    /\ ~renderInit
    /\ Len(nodes) > 0
    /\ LET hit == findNodeAtPosition(simNodes, transform, p)
       IN  IF isExpanding \/ hit = 0
           THEN UNCHANGED <<selectedNode, clicks, renderInit>>
           ELSE /\ selectedNode' = simNodes[hit].id
                /\ clicks' = Append(clicks, [id |-> simNodes[hit].id,
                                             label |-> simNodes[hit].label,
                                             type |-> simNodes[hit].type,
                                             reason |-> simNodes[hit].reason])
                /\ renderInit' = (selectedNode # simNodes[hit].id)
    /\ UNCHANGED <<topoVars, expandingNodeId, dimensions, hoveredNode, mergeVars, simVars,
                   rafPending, rafRequests, rafAt, lastTime, frameDrew, surface, lifeVars,
                   transform, zoomTransform, isExpanding, lastMouseMove, now, hookVars>>

\* handleMouseMove for a pointer at surface point p
handleMouseMove(p) ==
    /\ mounted
    /\ ~renderInit
    /\ Len(nodes) > 0
    /\ IF now - lastMouseMove < ThrottleMs
       THEN UNCHANGED <<lastMouseMove, hoveredNode, needsRedraw, renderInit>>
       ELSE /\ lastMouseMove' = now
            /\ LET hit == findNodeAtPosition(simNodes, transform, p)
                   hitId == IF hit = 0 THEN NoNode ELSE simNodes[hit].id
               IN  IF hitId # hoveredNode
                   THEN /\ hoveredNode' = hitId
                        /\ needsRedraw' = TRUE
                        /\ renderInit' = TRUE
                   ELSE UNCHANGED <<hoveredNode, needsRedraw, renderInit>>
    /\ UNCHANGED <<topoVars, expandingNodeId, dimensions, selectedNode, mergeVars,
                   isSimulationActive, alpha, simRunning, simulations, rafPending, rafRequests, rafAt,
                   lastTime, frameDrew, surface, lifeVars, transform, zoomTransform, isExpanding, clicks,
                   now, hookVars>>

\* the canvas's onMouseLeave
MouseLeave ==
    /\ mounted
    /\ ~renderInit
    /\ Len(nodes) > 0
    /\ hoveredNode' = NoNode
    /\ renderInit' = (hoveredNode # NoNode)
    /\ UNCHANGED <<topoVars, expandingNodeId, dimensions, selectedNode, mergeVars, simVars,
                   rafPending, rafRequests, rafAt, lastTime, frameDrew, surface, lifeVars,
                   viewVars, now, hookVars>>

(***************************************************************************)
(* Teardown                                                                *)
(***************************************************************************)
ClearTimeoutNever(timer) == timer

\* cleanup of the resize effect: clearTimeout(resizeTimeout)
ClearTimeout(timer) == FALSE

\* the component unmounts: the cleanups of the resize effect and of the
\* render loop effect run; the update effect has none
Unmount ==
    /\ mounted
    /\ ~renderInit
    /\ mounted' = FALSE
    /\ resizeTimer' = ClearTimeout(resizeTimer)
    /\ rafRequests' = CancelFrame(rafRequests, rafPending)
    /\ rafPending' = FALSE
    /\ UNCHANGED <<topoVars, propVars, mergeVars, simVars, rafAt, lastTime, renderInit,
                   frameDrew, surface, viewVars, now, hookVars>>

Next ==
    \/ updates < MaxCommits /\ \E ns \in NodeLists(MaxNodes) : SetNodes(ns)
    \/ updates < MaxCommits /\ \E es \in EdgeLists(MaxNodes, MaxEdges) : SetEdges(es)
    \/ updates < MaxCommits /\ \E d \in ContainerSizes : ResizeDebounced(d)
    \/ updates < MaxCommits /\ \E e \in (1..MaxNodes) \cup {NoNode} : SetExpanding(e)
    \/ Tick
    \/ Frame
    \/ RenderEffectInit
    \/ AdvanceClock

Spec == Init /\ [][Next]_vars

(***************************************************************************)
(* The engine under graph updates only, with edge lists long enough for a  *)
(* path through an absent id.                                              *)
(***************************************************************************)
MergeNext ==
    \/ updates < MergeMaxCommits /\ \E ns \in NodeLists(MaxNodes) : SetNodes(ns)
    \/ updates < MergeMaxCommits /\ \E es \in EdgeLists(MaxNodes, MergeMaxEdges) : SetEdges(es)
    \/ Tick
    \/ Frame
    \/ RenderEffectInit
    \/ AdvanceClock

SpecMerge == Init /\ [][MergeNext]_vars

(***************************************************************************)
(* The engine's life cycle: mounting, updates, resize events and their     *)
(* debounce timer, hover and selection, teardown.                          *)
(***************************************************************************)
LifeMaxNodes == 1

LifeMaxCommits == 2

LifeMaxTime == 900

MaxClicks == 1

\* a surface point far outside the surface
OffSurface == [x |-> 0 - 5000, y |-> 0 - 5000]

\* simulation-space offsets from a node's position at which the pointer is
\* put: on the node, at the hit radius, just inside it
HitOffsets == {<<0, 0>>, <<HitRadius, 0>>, <<HitRadius - 1, 0>>}

\* surface points carried by pointer events
PointerPoints ==
    {toScreen(transform, [x |-> [num |-> simNodes[i].x + o[1], den |-> 1],
                          y |-> [num |-> simNodes[i].y + o[2], den |-> 1]]) :
        i \in DOMAIN simNodes, o \in HitOffsets} \cup {OffSurface}

LifeNext ==
    \/ updates < LifeMaxCommits /\ \E ns \in NodeLists(LifeMaxNodes) : SetNodes(ns)
    \/ updates < LifeMaxCommits /\ WindowResize
    \/ \E d \in ContainerSizes : ResizeTimeout(d)
    \/ updates < LifeMaxCommits /\ \E e \in (1..LifeMaxNodes) \cup {NoNode} : SetExpanding(e)
    \/ \E p \in PointerPoints : handleMouseMove(p)
    \/ MouseLeave
    \/ Len(clicks) < MaxClicks /\ \E p \in PointerPoints : handleCanvasClick(p)
    \/ Unmount
    \/ Tick
    \/ Frame
    \/ RenderEffectInit
    \/ now + TimeStep <= LifeMaxTime /\ AdvanceClock

LifeInit == Init /\ rng = 0

SpecLife == LifeInit /\ [][LifeNext]_vars

(***************************************************************************)
(* Viewport gestures and clicks on a graph that grows by appending nodes.  *)
(***************************************************************************)
ViewMaxNodes == 2

ViewMaxCommits == 3

\* a container in which a new node can be placed at simulation point (10, 10):
\* its centre is (10, 35) and the jitter of a coordinate is -25 or 0
ViewContainerSizes == {[width |-> 20, height |-> 70]}

\* scales asked for by gestures (tenths), below and above the extent included
ZoomRequests == {1, 10, 20, 100}

\* translations a gesture ends with (tenths of a pixel)
ZoomTranslations == {<<0, 0>>, <<1000, 500>>}

\* node lists whose i-th node has id i, with labels and reasons that change
\* from one list to the next
ViewNodeLists ==
    {ns \in SeqsUpTo({[id |-> i, type |-> "root", label |-> "a", reason |-> ""] :
                          i \in 1..ViewMaxNodes}
                      \cup {[id |-> i, type |-> "root", label |-> "b", reason |-> "r"] :
                               i \in 1..ViewMaxNodes}, ViewMaxNodes) :
        \A i \in DOMAIN ns : ns[i].id = i}

ViewNext ==
    \/ updates < ViewMaxCommits /\ \E ns \in ViewNodeLists : SetNodes(ns)
    \/ updates < ViewMaxCommits /\ \E d \in ViewContainerSizes : ResizeDebounced(d)
    \/ \E t \in ZoomTranslations, k \in ZoomRequests : Zoomed(t[1], t[2], k)
    \/ Tick
    \/ Frame
    \/ RenderEffectInit
    \/ now + TimeStep <= LifeMaxTime /\ AdvanceClock

SpecView == LifeInit /\ [][ViewNext]_vars

(***************************************************************************)
(* Picking and clicks under updates, gestures and the simulation's ticks.  *)
(***************************************************************************)
\* scales asked for by the gestures that precede a click (tenths)
PickZoomRequests == {20, 100}

PickNext ==
    \/ updates < ViewMaxCommits /\ \E ns \in ViewNodeLists : SetNodes(ns)
    \/ updates < ViewMaxCommits /\ \E d \in ViewContainerSizes : ResizeDebounced(d)
    \/ \E t \in ZoomTranslations, k \in PickZoomRequests : Zoomed(t[1], t[2], k)
    \/ \E b \in BOOLEAN : SetIsExpanding(b)
    \/ Len(clicks) < MaxClicks /\ \E p \in PointerPoints : handleCanvasClick(p)
    \/ Tick
    \/ RenderEffectInit

SpecPick == LifeInit /\ [][PickNext]_vars

(***************************************************************************)
(* The simulation's energy under updates.  The simulation's timer keeps    *)
(* firing while it runs, and the effects of a commit run.                  *)
(***************************************************************************)
ReheatMaxNodes == 1

ReheatMaxEdges == 1

ReheatMaxCommits == 3

ReheatNext ==
    \/ updates < ReheatMaxCommits /\ \E ns \in NodeLists(ReheatMaxNodes) : SetNodes(ns)
    \/ updates < ReheatMaxCommits
          /\ \E es \in EdgeLists(ReheatMaxNodes, ReheatMaxEdges) : SetEdges(es)
    \/ updates < ReheatMaxCommits /\ \E d \in ContainerSizes : ResizeDebounced(d)
    \/ Tick
    \/ Frame
    \/ RenderEffectInit
    \/ AdvanceClock

FairSpecReheat ==
    LifeInit /\ [][ReheatNext]_vars /\ WF_vars(Tick) /\ WF_vars(RenderEffectInit)

(***************************************************************************)
(* Entrance animations.  Nodes are added while there is time left for      *)
(* their entrance to finish; the clock advances and the host keeps running *)
(* the requested frames.                                                   *)
(***************************************************************************)
EntranceMaxNodes == 2

EntranceMaxCommits == 3

\* time passes for two entrance durations
EntranceMaxTime == 1200

\* the clock, advancing in steps of TimeStep from t, passes t + d within the
\* horizon
ClockCovers(t, d, horizon) ==
    t + TimeStep * ((d + TimeStep - 1) \div TimeStep) <= horizon

EntranceClock ==
    /\ ~renderInit
    /\ now + TimeStep <= EntranceMaxTime
    /\ now' = now + TimeStep
    /\ UNCHANGED <<topoVars, propVars, mergeVars, simVars, loopVars, lifeVars, viewVars,
                   hookVars>>

EntranceNext ==
    \/ /\ updates < EntranceMaxCommits
       /\ ClockCovers(now, EntranceDuration, EntranceMaxTime)
       /\ \E ns \in NodeLists(EntranceMaxNodes) : SetNodes(ns)
    \/ Tick
    \/ Frame
    \/ RenderEffectInit
    \/ EntranceClock

FairSpecEntrance ==
    /\ LifeInit
    /\ [][EntranceNext]_vars
    /\ WF_vars(Frame) /\ WF_vars(RenderEffectInit) /\ WF_vars(EntranceClock)

(***************************************************************************)
(* Links under updates and resizes: enough commits for a graph to be shown,*)
(* the container to shrink to nothing, a node to be added at the new       *)
(* centre and an edge to it to arrive.                                     *)
(***************************************************************************)
LinkMaxNodes == 2

LinkMaxEdges == 1

LinkMaxCommits == 4

LinkNodeLists ==
    {ns \in OrderedNodeLists(LinkMaxNodes) : \A i \in DOMAIN ns : ns[i].type = "root"}

LinkNext ==
    \/ updates < LinkMaxCommits /\ \E ns \in LinkNodeLists : SetNodes(ns)
    \/ updates < LinkMaxCommits
          /\ \E es \in EdgeLists(LinkMaxNodes, LinkMaxEdges) : SetEdges(es)
    \/ updates < LinkMaxCommits /\ \E d \in ContainerSizes : ResizeDebounced(d)
    \/ Tick
    \/ Frame
    \/ RenderEffectInit
    \/ AdvanceClock

SpecLinks == LifeInit /\ [][LinkNext]_vars

(***************************************************************************)
(* Colour of a node of any depth on any island.                            *)
(***************************************************************************)
MaxColorDepth == 16

MaxColorIsland == 21

ColorInit ==
    /\ EngineInit
    /\ rng = 0
    /\ StoreIdle
    /\ AppIdle
    /\ colorArgs \in [depth : 0..MaxColorDepth, islandIndex : 0..MaxColorIsland]
    /\ colorOut = NoColor

ColorNext == GetColor

SpecColor == ColorInit /\ [][ColorNext]_vars

(***************************************************************************)
(* One request, a query or a mutation, under every course its attempts can *)
(* take.                                                                   *)
(***************************************************************************)
\* response statuses: success, a redirect left unfollowed, the ends of the
\* client-error range, a server error
Statuses == {200, 399, 400, 499, 500}

FetchOutcomes ==
    [type : {"response"}, status : Statuses]
        \cup {[type |-> "typeError", status |-> 0], [type |-> "other", status |-> 0]}

RetryNext ==
    \/ \E kind \in {"query", "mutation"} : StartFetch(kind)
    \/ \E outcome \in FetchOutcomes : AttemptSettles(outcome)

RetryInit == Init /\ rng = 0

SpecRetry == RetryInit /\ [][RetryNext]_vars

(***************************************************************************)
(* The page under what its user and its backend can do: typing, the        *)
(* debounce, submissions, the typo dialog, node clicks, and each request   *)
(* ending with any outcome.                                                *)
(***************************************************************************)
PageMaxMutations == 3

\* what the user types: a text with a known typo, a label, part of a label
PageTexts == {<<"T", "e", "h">>, <<"c", "a", "t">>, <<"c", "a">>}

\* the nodes the backend answers with
BackendNodes == {[id |-> 1, label |-> <<"c", "a", "t">>], [id |-> 2, label |-> <<"t", "h", "e">>]}

BackendEdges == <<[source |-> 1, target |-> 2]>>

\* a 200, a success that is not a 200, a server error, no connection
PageOutcomes ==
    [type : {"response"}, status : {200, 204, 500}] \cup {[type |-> "typeError", status |-> 0]}

\* a timer that is due fires before more time passes
NoTimerDue ==
    /\ ~(debounceTimer # NoTimeout /\ now >= debounceTimer)
    /\ ~(saveTimeout # NoTimeout /\ now >= saveTimeout)

MutationSettles ==
    \E m \in mutations : \E outcome \in PageOutcomes :
        \/ \E node \in BackendNodes : SeedSettles(m, outcome, node)
        \/ \E node \in BackendNodes : ExpandSettles(m, outcome, <<node>>, BackendEdges)
        \/ \E action \in {"new_root", "expand"} : SimilaritySettles(m, outcome, action)

PageNext ==
    \/ MountEffects
    \/ SaveTimeoutFires
    \/ (NoTimerDue /\ AdvanceClock)
    \/ Focus
    \/ Blur
    \/ \E text \in PageTexts : TypeValue(text)
    \/ DebounceFires
    \/ HideSuggestions
    \/ \E index \in 1..FuzzyMaxResults : SelectMatch(index)
    \/ \E index \in 1..FuzzyMaxResults : OmniSubmit(index, PageMaxMutations)
    \/ TypoAccept(PageMaxMutations)
    \/ TypoReject(PageMaxMutations)
    \/ TypoCancel
    \/ \E node \in BackendNodes : NodeClick(node, PageMaxMutations)
    \/ HandleClear
    \/ MutationSettles

PageInit == Init /\ rng = 0

SpecPage == PageInit /\ [][PageNext]_vars

\* every request ends
FairSpecPage == SpecPage /\ WF_vars(MutationSettles)

(***************************************************************************)
(* useGraphState under arbitrary calls of its operations.                  *)
(***************************************************************************)
StoreMaxBatch == 2

StoreMaxLogs == 1

StoreMaxContextCalls == 2

StoreNodes == {[id |-> 1, label |-> "a"], [id |-> 2, label |-> "b"]}

StoreEdges == {[source |-> 1, target |-> 2], [source |-> 2, target |-> 1]}

StoreNext ==
    \/ MountEffects
    \/ \E node \in StoreNodes : AddNode(node)
    \/ \E newNodes \in SeqsUpTo(StoreNodes, StoreMaxBatch) : AddNodes(newNodes)
    \/ \E newNodes \in SeqsUpTo(StoreNodes, StoreMaxBatch) :
          \E newEdges \in SeqsUpTo(StoreEdges, StoreMaxBatch) :
             AddNodesAndEdges(newNodes, newEdges)
    \/ \E edge \in StoreEdges : AddEdge(edge)
    \/ \E newEdges \in SeqsUpTo(StoreEdges, StoreMaxBatch) : AddEdges(newEdges)
    \/ ClearGraph
    \/ contextCalls < StoreMaxContextCalls /\ GetContext

StoreInit == EngineInit /\ rng = 0 /\ ColorIdle /\ StoreIdle /\ AppIdle

SpecStore == StoreInit /\ [][StoreNext]_vars

(***************************************************************************)
(* useGraphState and its storage: changes, the debounced save, and the     *)
(* page closed and opened again.                                           *)
(***************************************************************************)
PersistNext ==
    \/ MountEffects
    \/ \E node \in StoreNodes : AddNode(node)
    \/ \E edge \in StoreEdges : AddEdge(edge)
    \/ logIds < StoreMaxLogs /\ AddLogEntry
    \/ ClearGraph
    \/ SaveTimeoutFires
    \/ ClosePage
    \/ OpenPage
    \/ AdvanceClock

SpecPersist == StoreInit /\ [][PersistNext]_vars

\* the page stays open, its mount effects run before time passes, changes
\* are made while a save can still fall due within the time horizon, the
\* clock advances and due timers fire
SettleNext ==
    \/ MountEffects
    \/ /\ ClockCovers(now, StorageDebounceMs, MaxTime)
       /\ \/ \E node \in StoreNodes : AddNode(node)
          \/ \E edge \in StoreEdges : AddEdge(edge)
          \/ logIds < StoreMaxLogs /\ AddLogEntry
          \/ ClearGraph
    \/ SaveTimeoutFires
    \/ isLoaded /\ AdvanceClock

FairSpecSettle ==
    /\ StoreInit
    /\ [][SettleNext]_vars
    /\ WF_vars(MountEffects) /\ WF_vars(SaveTimeoutFires) /\ WF_vars(AdvanceClock)

(***************************************************************************)
(* Topology analysis run root by root on an arbitrary input.               *)
(***************************************************************************)
TopoInit ==
    /\ nodes \in OrderedNodeLists(TopoMaxNodes)
    /\ edges \in EdgeLists(TopoMaxNodes, TopoMaxEdges)
    /\ rootsDone = 0
    /\ depthMap = EmptyMap
    /\ islandMap = EmptyMap
    /\ expandingNodeId = NoNode
    /\ dimensions = InitialDimensions
    /\ hoveredNode = NoNode
    /\ selectedNode = NoNode
    /\ simNodes = <<>>
    /\ simLinks = <<>>
    /\ prevNodeIds = {}
    /\ needsRedraw = TRUE
    /\ isSimulationActive = FALSE
    /\ alpha = 0
    /\ simRunning = FALSE
    /\ simulations = 0
    /\ rafPending = FALSE
    /\ rafRequests = 0
    /\ rafAt = 0
    /\ lastTime = 0
    /\ renderInit = FALSE
    /\ frameDrew = FALSE
    /\ surface = [transform |-> zoomIdentity, ops |-> <<>>]
    /\ mounted = TRUE
    /\ resizeTimer = FALSE
    /\ transform = zoomIdentity
    /\ zoomTransform = zoomIdentity
    /\ isExpanding = FALSE
    /\ clicks = <<>>
    /\ lastMouseMove = 0
    /\ updates = 0
    /\ rng = 0
    /\ droppedIds = {}
    /\ now = TimeStep
    /\ ColorIdle
    /\ StoreIdle
    /\ AppIdle

TopoProcessRoot ==
    /\ rootsDone < Len(RootNodes(nodes))
    /\ LET r == ProcessRoot([depthMap |-> depthMap, islandMap |-> islandMap],
                            RootNodes(nodes)[rootsDone + 1], rootsDone, edges)
       IN  /\ depthMap' = r.depthMap
           /\ islandMap' = r.islandMap
    /\ rootsDone' = rootsDone + 1
    /\ UNCHANGED <<nodes, edges, engineVars>>

TopoNext == TopoProcessRoot

SpecTopo == TopoInit /\ [][TopoNext]_vars

TopoDone == rootsDone = Len(RootNodes(nodes))

(***************************************************************************)
(* Topology analysis: C1 - C4                                              *)
(***************************************************************************)
RootIds(ns) == {ns[i].id : i \in {j \in DOMAIN ns : ns[j].type = "root"}}

RECURSIVE ForwardClosure(_, _)
ForwardClosure(S, es) ==
    LET T == S \cup {e.target : e \in {x \in Range(es) : x.source \in S}}
    IN  IF T = S THEN S ELSE ForwardClosure(T, es)

C3_FirstClaimWins ==
    [][rootsDone' = rootsDone + 1 =>
        /\ \A id \in DOMAIN depthMap :
              id \notin RootIds(nodes) =>
                /\ id \in DOMAIN depthMap'
                /\ depthMap'[id] = depthMap[id]
                /\ islandMap'[id] = islandMap[id]
        /\ LET r == RootNodes(nodes)[rootsDone + 1].id
           IN  depthMap'[r] = 0 /\ islandMap'[r] = rootsDone]_vars

\* C3 witness: a later root has been processed that has an edge to a non-root
\* node claimed by an earlier root.
C3_Witness ==
    /\ rootsDone >= 2
    /\ \E e \in Range(edges) :
          /\ e.source = RootNodes(nodes)[rootsDone].id
          /\ e.target \in DOMAIN islandMap
          /\ e.target \notin RootIds(nodes)
          /\ islandMap[e.target] < rootsDone - 1

\* C3 (original): processing a later root never changes the depth or island of
\* any assigned node, root-type or generated.
C3_FirstClaimWinsOriginal ==
    [][rootsDone' = rootsDone + 1 =>
        \A id \in DOMAIN depthMap :
            /\ id \in DOMAIN depthMap'
            /\ depthMap'[id] = depthMap[id]
            /\ islandMap'[id] = islandMap[id]]_vars

\* C4: with unique node ids, every assigned id has exactly one island index,
\* the distinct island indices are as many as the root-type nodes, and the k-th
\* root-type node (from 0) has island index k and depth 0.
C4_IslandPerRoot ==
    TopoDone =>
        /\ DOMAIN islandMap = DOMAIN depthMap
        /\ Cardinality({islandMap[id] : id \in DOMAIN islandMap}) = Len(RootNodes(nodes))
        /\ \A k \in DOMAIN RootNodes(nodes) :
              /\ islandMap[RootNodes(nodes)[k].id] = k - 1
              /\ depthMap[RootNodes(nodes)[k].id] = 0

\* C4 witness: two roots, the second reachable from the first.
C4_Witness ==
    /\ TopoDone
    /\ Len(RootNodes(nodes)) >= 2
    /\ \E e \in Range(edges) :
          /\ e.source = RootNodes(nodes)[1].id
          /\ e.target = RootNodes(nodes)[2].id

(***************************************************************************)
(* The update effect: C5 - C9                                              *)
(***************************************************************************)
\* the input edges whose two endpoints are ids of the node list
ResolvableEdges == SelectSeq(edges, LAMBDA e : e.source \in IdsOf(nodes) /\ e.target \in IdsOf(nodes))

C6_DanglingEdgesDropped ==
    updates > 0 =>
        /\ Len(simLinks) = Len(ResolvableEdges)
        /\ \A k \in DOMAIN simLinks :
              /\ simNodes[simLinks[k].source].id = ResolvableEdges[k].source
              /\ simNodes[simLinks[k].target].id = ResolvableEdges[k].target
        /\ LET clean == calculateDepthsAndIslands(nodes, ResolvableEdges)
           IN  \A i \in DOMAIN simNodes :
                  /\ simNodes[i].depth = GetOrZero(clean.depthMap, simNodes[i].id)
                  /\ simNodes[i].islandIndex = GetOrZero(clean.islandMap, simNodes[i].id)

\* the SimLink half of C6 taken alone (it holds)
C6_LinksResolved ==
    updates > 0 =>
        /\ Len(simLinks) = Len(ResolvableEdges)
        /\ \A k \in DOMAIN simLinks :
              /\ simNodes[simLinks[k].source].id = ResolvableEdges[k].source
              /\ simNodes[simLinks[k].target].id = ResolvableEdges[k].target

PhysicsAndAnimation(n) ==
    <<n.x, n.y, n.vx, n.vy, n.entranceProgress, n.entranceStartTime, n.scale,
      n.glowIntensity, n.pulsePhase>>

\* C7: across every commit (node list, edge list or dimension change) a node id
\* present before and after keeps its position, velocity, entranceProgress,
\* entranceStartTime, scale, glowIntensity and pulsePhase.
C7_Continuity ==
    [][updates' = updates + 1 =>
        \A i \in DOMAIN simNodes : \A j \in DOMAIN simNodes' :
            simNodes[i].id = simNodes'[j].id =>
                PhysicsAndAnimation(simNodes'[j]) = PhysicsAndAnimation(simNodes[i])]_vars

\* C7 witness: the simulation has just been reheated by an update and holds a
\* node that the forces had moved before it and whose entrance is half way.
C7_Witness ==
    /\ updates >= 2
    /\ alpha = AlphaReheat
    /\ \E i \in DOMAIN simNodes :
          /\ simNodes[i].vx = 1
          /\ simNodes[i].entranceProgress > 0
          /\ simNodes[i].entranceProgress < EntranceDuration

\* C8: after every update the SimNode ids are the ids of the node list in the
\* same order, and a SimNode whose id was not among the SimNodes before the
\* update is a fresh one (initial scale and glow, no velocity, placed at the
\* centre of the viewport with jitter), also when that id had a SimNode that an
\* earlier update discarded.
C8_IdsFollowList ==
    [][updates' = updates + 1 =>
        /\ Len(simNodes') = Len(nodes')
        /\ \A j \in DOMAIN simNodes' :
              /\ simNodes'[j].id = nodes'[j].id
              /\ simNodes'[j].id \notin IdsOf(simNodes) =>
                    /\ simNodes'[j].scale = InitialScale
                    /\ simNodes'[j].glowIntensity = InitialGlow
                    /\ simNodes'[j].vx = 0 /\ simNodes'[j].vy = 0
                    /\ simNodes'[j].x - (dimensions'.width \div 2) \in {Jitter(0), Jitter(1)}
                    /\ simNodes'[j].y - (dimensions'.height \div 2) \in {Jitter(0), Jitter(1)}]_vars

\* C8 witness: a SimNode exists for an id whose earlier SimNode was discarded.
C8_Witness ==
    \E i \in DOMAIN simNodes : simNodes[i].id \in droppedIds

\* C9: a node created by the first update starts with entranceProgress 1 and a
\* node created by any later update starts with entranceProgress 0 and the
\* update's time as its entrance start.
C9_EntranceOfNewNodes ==
    [][\A j \in DOMAIN simNodes' :
          simNodes'[j].id \notin IdsOf(simNodes) =>
              IF updates = 0
              THEN simNodes'[j].entranceProgress = EntranceDuration
              ELSE /\ simNodes'[j].entranceProgress = 0
                   /\ simNodes'[j].entranceStartTime = now]_vars

(***************************************************************************)
(* The render loop: C10                                                    *)
(***************************************************************************)
\* a step that runs a scheduled animation frame callback
IsFrameStep == ~renderInit /\ rafAt' # rafAt

\* C10: a scheduled frame redraws iff the dirty flag is set, the simulation is
\* active, some node's entrance is unfinished or an expanding node is flagged;
\* a redrawn frame leaves the dirty flag clear, and a frame that does not
\* redraw changes no SimNode and no flag.
C10_RedrawGate ==
    [][IsFrameStep =>
        /\ frameDrew' <=>
              \/ needsRedraw
              \/ isSimulationActive
              \/ \E i \in DOMAIN simNodes : simNodes[i].entranceProgress < EntranceDuration
              \/ expandingNodeId # NoNode
        /\ frameDrew' => ~needsRedraw'
        /\ ~frameDrew' =>
              /\ simNodes' = simNodes
              /\ needsRedraw' = needsRedraw
              /\ isSimulationActive' = isSimulationActive]_vars

\* C10 witness: a scheduled frame has run without redrawing.
C10_Witness ==
    /\ rafPending
    /\ rafAt > 0
    /\ ~frameDrew

(***************************************************************************)
(* Frame scheduling and teardown: C11, C12                                 *)
(***************************************************************************)
\* C11: a run of the frame handler consumes the request that started it and
\* leaves exactly one request outstanding, whether or not it redrew; the host
\* never holds more than one request, also across re-initialisations of the
\* loop; and while the component is mounted with a canvas and its effects have
\* run, a request is outstanding.
C11_OneFrameRequest ==
    [][/\ IsFrameStep => (rafRequests = 1 /\ rafRequests' = 1 /\ rafPending')
       /\ rafRequests' <= 1
       /\ (mounted' /\ Len(nodes') > 0 /\ ~renderInit') => rafRequests' = 1]_vars

\* C11 witness: the loop has been re-initialised for a hovered and selected
\* node, and the frame handler has since run without redrawing.
C11_Witness ==
    /\ mounted
    /\ hoveredNode # NoNode
    /\ selectedNode # NoNode
    /\ ~renderInit
    /\ rafRequests = 1
    /\ rafAt > TimeStep
    /\ ~frameDrew

\* C12: once the component is unmounted the host holds no frame request and
\* the resize timer is not pending, so from then on the frame handler never
\* runs (no frame is timed or drawn) and the dimensions never change.
C12_TeardownCancels ==
    [][~mounted' =>
        /\ rafRequests' = 0
        /\ ~resizeTimer'
        /\ ~mounted =>
              /\ lastTime' = lastTime
              /\ rafAt' = rafAt
              /\ surface' = surface
              /\ dimensions' = dimensions]_vars

\* C12 witness: the component was unmounted while its render loop was running
\* on a canvas, the clock has moved on since the last frame, and the
\* simulation is still running.
C12_Witness ==
    /\ ~mounted
    /\ Len(nodes) > 0
    /\ rafAt > 0
    /\ now > rafAt
    /\ simRunning

(***************************************************************************)
(* Reheating and idleness: C13, C14                                        *)
(***************************************************************************)
\* a step in which the update effect runs
IsUpdateStep ==
    \/ \E ns \in NodeLists(ReheatMaxNodes) : SetNodes(ns)
    \/ \E es \in EdgeLists(ReheatMaxNodes, ReheatMaxEdges) : SetEdges(es)
    \/ \E d \in ContainerSizes :
          (d.width # dimensions.width \/ d.height # dimensions.height) /\ ResizeDebounced(d)

\* C13: every run of the update effect leaves the one simulation reheated
\* (is-active set, dirty flag set, alpha at its reheat level), the is-active
\* flag is set exactly while alpha is above the threshold, only an update sets
\* it again once it is clear, and while it is set it is eventually cleared
\* unless another commit arrives first.
C13_Reheat ==
    /\ [][/\ IsUpdateStep =>
              /\ isSimulationActive'
              /\ needsRedraw'
              /\ alpha' = AlphaReheat
              /\ simulations' = 1
          /\ isSimulationActive' <=> alpha' > 0
          /\ (~isSimulationActive /\ isSimulationActive') => IsUpdateStep]_vars
    /\ \A n \in 0..ReheatMaxCommits :
          (isSimulationActive /\ updates = n) ~> (~isSimulationActive \/ updates > n)

\* C13 witness: the simulation was reheated by a second update and has since
\* decayed below the threshold and stopped.
C13_Witness ==
    /\ updates >= 2
    /\ simulations = 1
    /\ ~isSimulationActive
    /\ ~simRunning
    /\ \E i \in DOMAIN simNodes : simNodes[i].vx = 1

\* C14: once an update has run with an empty node list or with a viewport of
\* zero width or height, the simulation is neither active nor running.
C14_IdleOnEmptyOrZeroSize ==
    (updates > 0 /\ (Len(nodes) = 0 \/ dimensions.width = 0 \/ dimensions.height = 0))
        => (~isSimulationActive /\ ~simRunning)

\* the part of C14 that holds: with an empty node list there is no canvas, the
\* render loop holds no frame request and no frame is drawn
C14_EmptyListDrawsNothing ==
    [][(Len(nodes) = 0 /\ ~renderInit) =>
          (rafRequests = 0 /\ surface' = surface /\ lastTime' = lastTime)]_vars

(***************************************************************************)
(* Viewport: C15, C16                                                      *)
(***************************************************************************)
\* C15: the scale stays within [0.2, 5] whatever scale a gesture asks for;
\* every change of the transform leaves the dirty flag set; the dirty flag is
\* cleared only by a redraw, which applies the transform then current; and a
\* frame that finds the dirty flag set redraws.
C15_ScaleClampedAndDirty ==
    [][/\ ScaleMin <= transform'.k /\ transform'.k <= ScaleMax
       /\ transform' # transform => needsRedraw'
       /\ (needsRedraw /\ ~needsRedraw') =>
             (frameDrew' /\ surface'.transform = transform')
       /\ (IsFrameStep /\ needsRedraw) =>
             (frameDrew' /\ surface'.transform = transform)]_vars

\* C15 witness: a gesture asked for a scale above the extent and panned, and a
\* scheduled frame has since redrawn with the clamped transform.
C15_Witness ==
    /\ transform = [x |-> 1000, y |-> 500, k |-> ScaleMax]
    /\ surface.transform = transform
    /\ frameDrew
    /\ ~needsRedraw
    /\ rafAt > TimeStep

\* equality of two simulation-space points kept as fractions
SamePoint(a, b) ==
    /\ a.x.num * b.x.den = b.x.num * a.x.den
    /\ a.y.num * b.y.den = b.y.num * a.y.den

\* the scenario's transform, node position and surface point
ScenarioTransform == [x |-> 1000, y |-> 500, k |-> 20]

ScenarioNode == [x |-> 10, y |-> 10]

ScenarioPoint == [x |-> 1200, y |-> 700]

\* C16: for the current transform, mapping a surface point to simulation space
\* and drawing the result gives the point back; mapping a node's drawn position
\* to simulation space gives the node's position, so a click at the drawn
\* position of a node finds a node; and with k = 2, tx = 100, ty = 50 a node at
\* simulation (10, 10) is drawn at surface (120, 70) and a click there finds it.
C16_InverseMapping ==
    /\ \A p \in PointerPoints : toScreen(transform, toSimulation(transform, p)) = p
    /\ \A i \in DOMAIN simNodes :
          LET drawnAt == toScreen(transform, PositionOf(simNodes[i]))
          IN  /\ SamePoint(toSimulation(transform, drawnAt), PositionOf(simNodes[i]))
              /\ findNodeAtPosition(simNodes, transform, drawnAt) \in 1..i
              /\ DistanceSquared(simNodes[i], toSimulation(transform, drawnAt)) = 0
    /\ toScreen(ScenarioTransform, PositionOf(ScenarioNode)) = ScenarioPoint
    /\ findNodeAtPosition(<<ScenarioNode>>, ScenarioTransform, ScenarioPoint) = 1
    /\ \A i \in DOMAIN simNodes :
          (transform = ScenarioTransform /\ simNodes[i].x = 10 /\ simNodes[i].y = 10) =>
              /\ toScreen(transform, PositionOf(simNodes[i])) = ScenarioPoint
              /\ findNodeAtPosition(simNodes, transform, ScenarioPoint) \in 1..i

\* C16 witness: the scenario's state: the transform is k = 2, tx = 100, ty = 50
\* and a node the simulation holds is at (10, 10), away from the other node,
\* and is the node found at surface (120, 70).
C16_Witness ==
    /\ transform = ScenarioTransform
    /\ Len(simNodes) = 2
    /\ simNodes[2].x = 10 /\ simNodes[2].y = 10
    /\ ~WithinHitRadius(simNodes[1], PositionOf(simNodes[2]))
    /\ findNodeAtPosition(simNodes, transform, ScenarioPoint) = 2

(***************************************************************************)
(* Picking and clicks: C17, C18                                            *)
(***************************************************************************)
\* node i of the simulation is strictly nearer than the hit radius to the
\* simulation-space image of surface point p
Qualifies(i, p) ==
    LET g == toSimulation(transform, p)
    IN  DistanceSquared(simNodes[i], g) < (HitRadius * g.x.den) * (HitRadius * g.x.den)

\* C17: for every surface point, the node found is the first one in list order
\* that is strictly nearer than 40 to the point's image in simulation space,
\* whether or not a later node is nearer; no node is found when none is that
\* near, as for a point outside the surface.
C17_FirstWithinRadius ==
    /\ \A p \in PointerPoints :
          LET found == findNodeAtPosition(simNodes, transform, p)
          IN  /\ found \in 0..Len(simNodes)
              /\ found # 0 => Qualifies(found, p)
              /\ \A j \in DOMAIN simNodes : (found = 0 \/ j < found) => ~Qualifies(j, p)
    /\ findNodeAtPosition(simNodes, transform, OffSurface) = 0

\* C17 witness: the second node's drawn position is within the hit radius of
\* the first node too, the first node is the one found there although the
\* second is nearer, and a click has selected the first node.
C17_Witness ==
    /\ Len(simNodes) = 2
    /\ LET p == toScreen(transform, PositionOf(simNodes[2]))
       IN  /\ Qualifies(1, p)
           /\ DistanceSquared(simNodes[2], toSimulation(transform, p))
                < DistanceSquared(simNodes[1], toSimulation(transform, p))
           /\ findNodeAtPosition(simNodes, transform, p) = 1
    /\ selectedNode = simNodes[1].id
    /\ Len(clicks) = 1

\* no node other than node i is within the hit radius of node i's position
Alone(i) ==
    \A j \in DOMAIN simNodes : j # i => ~WithinHitRadius(simNodes[j], PositionOf(simNodes[i]))

\* C18: a click at the drawn position of a node that has no other node within
\* the hit radius, with interactions enabled, invokes onNodeClick once with the
\* id, label, type and reason the node list holds for that node and selects
\* it; the callback is invoked and the selection changed by nothing else: not
\* while interactions are disabled, and not by a click that finds no node.
C18_ClickSelects ==
    [][/\ \A i \in DOMAIN simNodes :
             (/\ Alone(i)
              /\ ~isExpanding
              /\ handleCanvasClick(toScreen(transform, PositionOf(simNodes[i])))) =>
                 /\ clicks' = Append(clicks, nodes[i])
                 /\ selectedNode' = nodes[i].id
       /\ isExpanding => (clicks' = clicks /\ selectedNode' = selectedNode)
       /\ (clicks' # clicks \/ selectedNode' # selectedNode) =>
             \E p \in PointerPoints :
                LET found == findNodeAtPosition(simNodes, transform, p)
                IN  /\ found # 0
                    /\ clicks' = Append(clicks, nodes[found])
                    /\ selectedNode' = nodes[found].id]_vars

\* C18 witness: of two nodes beyond each other's hit radius, moved by the
\* simulation, the second has been clicked: the callback received its id,
\* label, type and reason and the node is selected.
C18_Witness ==
    /\ Len(simNodes) = 2
    /\ Alone(2)
    /\ Len(clicks) = 1
    /\ clicks[1] = [id |-> 2, label |-> "b", type |-> "root", reason |-> "r"]
    /\ selectedNode = 2
    /\ simNodes[2].vx = 1

(***************************************************************************)
(* Topology analysis under self-loops, duplicate edges and cycles: C19     *)
(***************************************************************************)
InsertAt(s, pos, e) == SubSeq(s, 1, pos) \o <<e>> \o SubSeq(s, pos + 1, Len(s))

\* es without its self-loops and without the later copies of a repeated edge
WithoutLoopsAndCopies(es) ==
    LET keep == {i \in DOMAIN es :
                    /\ es[i].source # es[i].target
                    /\ \A j \in 1..(i - 1) : es[j] # es[i]}
        F[i \in 0..Len(es)] ==
            IF i = 0 THEN <<>>
            ELSE IF i \in keep THEN Append(F[i - 1], es[i]) ELSE F[i - 1]
    IN  F[Len(es)]

\* the number of entries the traversal of one island takes off its queue
RECURSIVE BfsSteps(_, _, _)
BfsSteps(es, islandIndex, st) ==
    IF st.queue = <<>> THEN 0
    ELSE LET current == Head(st.queue)
             rest == [st EXCEPT !.queue = Tail(st.queue)]
         IN  1 + BfsSteps(es, islandIndex,
                          VisitChildren(Children(es, current), current, islandIndex, rest))

\* C19: the completed analysis gives the depths and islands it gives on the
\* edge list without its self-loops and repeated edges, and gives them again
\* when a self-loop on any node or a second copy of any edge is inserted at any
\* place of the edge list; on every graph, cyclic or disconnected, the
\* traversal of each island ends after taking at most one queue entry per
\* assigned id.
C19_LoopsAndCopiesIgnored ==
    TopoDone =>
        LET maps == [depthMap |-> depthMap, islandMap |-> islandMap]
        IN  /\ calculateDepthsAndIslands(nodes, edges) = maps
            /\ calculateDepthsAndIslands(nodes, WithoutLoopsAndCopies(edges)) = maps
            /\ \A pos \in 0..Len(edges) :
                  \A e \in {[source |-> n, target |-> n] : n \in IdsOf(nodes)} \cup Range(edges) :
                     calculateDepthsAndIslands(nodes, InsertAt(edges, pos, e)) = maps
            /\ \A k \in 1..Len(RootNodes(nodes)) :
                  BfsSteps(edges, k - 1,
                           SeedRoot(MapsAfter(nodes, edges, k - 1), RootNodes(nodes)[k], k - 1))
                     <= Cardinality(DOMAIN depthMap)

\* C19 witness: the analysis is complete on a graph whose edges close a cycle
\* through a root, with the cycle's other node at depth 1 and a node of the
\* list that no edge connects to it left without a depth.
C19_Witness ==
    /\ TopoDone
    /\ \E r \in RootIds(nodes), c \in IdsOf(nodes), d \in IdsOf(nodes) :
          /\ r # c
          /\ [source |-> r, target |-> c] \in Range(edges)
          /\ [source |-> c, target |-> r] \in Range(edges)
          /\ depthMap[r] = 0 /\ depthMap[c] = 1
          /\ d \notin DOMAIN depthMap

\* C19 witness of the ignored edges: the analysis is complete on an edge list
\* holding a self-loop on a root and an edge out of that root.
C19_WitnessSelfLoop ==
    /\ TopoDone
    /\ \E r \in RootIds(nodes), c \in IdsOf(nodes) :
          /\ r # c
          /\ edges = <<[source |-> r, target |-> r], [source |-> r, target |-> c]>>
          /\ depthMap[r] = 0 /\ depthMap[c] = 1

(***************************************************************************)
(* Phases of a redrawn frame: C20                                          *)
(***************************************************************************)
\* a step in which render() redraws: a scheduled frame, or the first run of a
\* re-initialised loop
IsRedrawStep ==
    /\ frameDrew'
    /\ \/ IsFrameStep
       \/ renderInit /\ ~renderInit' /\ Len(nodes) > 0

\* C20: in every redrawn frame the draw calls are the links followed by the
\* nodes, each drawn with the entrance progress its SimNodes have after the
\* frame's animation pass, and that pass has advanced every unfinished
\* entrance to the frame's time; the frame changes neither the SimNode ids nor
\* the SimLinks, an update draws nothing, and in every state the SimNodes are
\* the nodes of the last update and every SimLink joins two of them along an
\* edge of that update.
C20_PhaseOrder ==
    [][/\ IsRedrawStep =>
             LET ops == surface'.ops
                 nLinks == Cardinality({a \in DOMAIN ops : ops[a].kind = "link"})
                 began == {i \in DOMAIN simNodes' : simNodes'[i].entranceProgress > 0}
             IN  /\ \A a \in DOMAIN ops :
                       ops[a].kind = IF a <= nLinks THEN "link" ELSE "node"
                 /\ \A i \in DOMAIN simNodes :
                       simNodes'[i].entranceProgress =
                          IF simNodes[i].entranceProgress < EntranceDuration
                          THEN Min(EntranceDuration, now - simNodes[i].entranceStartTime)
                          ELSE simNodes[i].entranceProgress
                 /\ Len(ops) - nLinks = Cardinality(began)
                 /\ \A i \in began :
                       \E a \in (nLinks + 1)..Len(ops) :
                          /\ ops[a].from = simNodes'[i].id
                          /\ ops[a].progress = simNodes'[i].entranceProgress
                 /\ \A a \in 1..nLinks :
                       \E l \in DOMAIN simLinks :
                          /\ ops[a].from = simNodes'[simLinks[l].source].id
                          /\ ops[a].to = simNodes'[simLinks[l].target].id
                          /\ ops[a].progress = Min(simNodes'[simLinks[l].source].entranceProgress,
                                                   simNodes'[simLinks[l].target].entranceProgress)
                 /\ [i \in DOMAIN simNodes' |-> simNodes'[i].id]
                       = [i \in DOMAIN simNodes |-> simNodes[i].id]
                 /\ simLinks' = simLinks
                 /\ prevNodeIds' = prevNodeIds
       /\ updates' # updates =>
             /\ surface' = surface
             /\ lastTime' = lastTime
             /\ rafRequests' = rafRequests
       /\ updates' > 0 =>
             /\ [i \in DOMAIN simNodes' |-> simNodes'[i].id]
                   = [i \in DOMAIN nodes' |-> nodes'[i].id]
             /\ \A l \in DOMAIN simLinks' :
                   /\ simLinks'[l].source \in DOMAIN simNodes'
                   /\ simLinks'[l].target \in DOMAIN simNodes'
                   /\ \E e \in DOMAIN edges' :
                         /\ edges'[e].source = simNodes'[simLinks'[l].source].id
                         /\ edges'[e].target = simNodes'[simLinks'[l].target].id]_vars

\* C20 witness: the last frame redrew a link and then a node while that node's
\* entrance was in progress.
C20_Witness ==
    /\ frameDrew
    /\ \E a, b \in DOMAIN surface.ops :
          /\ a < b
          /\ surface.ops[a].kind = "link"
          /\ surface.ops[b].kind = "node"
          /\ surface.ops[a].progress \in 1..(EntranceDuration - 1)
          /\ surface.ops[b].progress = surface.ops[a].progress
          /\ \E i \in DOMAIN simNodes :
                /\ simNodes[i].id = surface.ops[b].from
                /\ simNodes[i].entranceProgress = surface.ops[b].progress

(***************************************************************************)
(* Scale and glow animation: C21                                           *)
(***************************************************************************)
Distance(a, b) == IF a >= b THEN a - b ELSE b - a

\* C21: every scheduled frame brings the scale and the glow of every SimNode
\* nearer to their targets, unless they are already within the rounding of
\* the fixed-point step of them.
C21_FrameAdvancesTowardTarget ==
    [][IsFrameStep =>
          \A i \in DOMAIN simNodes :
             /\ Distance(TargetScale(simNodes[i].id), simNodes[i].scale) > 2 =>
                    Distance(TargetScale(simNodes[i].id), simNodes'[i].scale)
                       < Distance(TargetScale(simNodes[i].id), simNodes[i].scale)
             /\ Distance(TargetGlow(simNodes[i].id), simNodes[i].glowIntensity) > 2 =>
                    Distance(TargetGlow(simNodes[i].id), simNodes'[i].glowIntensity)
                       < Distance(TargetGlow(simNodes[i].id), simNodes[i].glowIntensity)]_vars

(***************************************************************************)
(* Entrance progress: C22                                                  *)
(***************************************************************************)
\* the entrance progress of the SimNode with this id, EntranceDuration when
\* there is none
ProgressOf(sn, id) ==
    IF \E i \in DOMAIN sn : sn[i].id = id
    THEN sn[CHOOSE i \in DOMAIN sn : sn[i].id = id].entranceProgress
    ELSE EntranceDuration

\* C22: entranceProgress is always within [0, 1]; over any step it does not
\* decrease for a node that remains, and stays 1 once it is 1; a redrawn
\* frame sets the progress of a node below 1 to min(1, elapsed / 600 ms); and
\* with frames running, a node below 1 eventually is at 1 or gone.
C22_EntranceProgress ==
    /\ [][/\ \A j \in DOMAIN simNodes' :
                simNodes'[j].entranceProgress \in 0..EntranceDuration
          /\ \A i \in DOMAIN simNodes, j \in DOMAIN simNodes' :
                simNodes[i].id = simNodes'[j].id =>
                   /\ simNodes'[j].entranceProgress >= simNodes[i].entranceProgress
                   /\ (IsRedrawStep /\ simNodes[i].entranceProgress < EntranceDuration) =>
                          simNodes'[j].entranceProgress =
                             Min(EntranceDuration, now - simNodes[i].entranceStartTime)]_vars
    /\ \A id \in 1..EntranceMaxNodes :
          (ProgressOf(simNodes, id) < EntranceDuration)
             ~> (ProgressOf(simNodes, id) = EntranceDuration)

\* C22 witness: a node added by a later update has finished its entrance
\* beside a node that was there from the first update.
C22_Witness ==
    /\ Len(simNodes) = 2
    /\ \A i \in DOMAIN simNodes : simNodes[i].entranceProgress = EntranceDuration
    /\ \E i \in DOMAIN simNodes : simNodes[i].entranceStartTime = 0
    /\ \E i \in DOMAIN simNodes : simNodes[i].entranceStartTime > 0
    /\ frameDrew

(***************************************************************************)
(* Targets and range of scale and glow: C23                                *)
(***************************************************************************)
Between(v, a, b) == (a <= v /\ v <= b) \/ (b <= v /\ v <= a)

\* C23: in a redrawn frame every node's scale lands between its old value and
\* the target 1.25 (expanding), else 1.15 (hovered), else 1, and its glow
\* between its old value and 0.9 (expanding), else 0.85 (selected), else 0.7
\* (hovered), else 0.4, moving unless it is within rounding of the target; and
\* after every step scale is within [1, 1.25] and glow within [0.4, 0.9].
C23_TargetsAndRange ==
    [][/\ IsRedrawStep =>
             \A i \in DOMAIN simNodes :
                LET id == simNodes[i].id
                    targetScale == IF expandingNodeId = id THEN 12500
                                   ELSE IF hoveredNode = id THEN 11500
                                   ELSE 10000
                    targetGlow == IF expandingNodeId = id THEN 9000
                                  ELSE IF selectedNode = id THEN 8500
                                  ELSE IF hoveredNode = id THEN 7000
                                  ELSE 4000
                IN  /\ Between(simNodes'[i].scale, simNodes[i].scale, targetScale)
                    /\ Between(simNodes'[i].glowIntensity, simNodes[i].glowIntensity, targetGlow)
                    /\ Distance(targetScale, simNodes[i].scale) > 2 =>
                           simNodes'[i].scale # simNodes[i].scale
                    /\ Distance(targetGlow, simNodes[i].glowIntensity) > 2 =>
                           simNodes'[i].glowIntensity # simNodes[i].glowIntensity
       /\ \A j \in DOMAIN simNodes' :
             /\ simNodes'[j].scale \in 10000..12500
             /\ simNodes'[j].glowIntensity \in 4000..9000]_vars

\* C23 witness: a node that is hovered, selected and expanding at once has
\* been redrawn on its way to the expanding targets, past the hovered scale
\* step and the first glow step.
C23_Witness ==
    /\ frameDrew
    /\ \E i \in DOMAIN simNodes :
          /\ expandingNodeId = simNodes[i].id
          /\ selectedNode = simNodes[i].id
          /\ hoveredNode = simNodes[i].id
          /\ simNodes[i].scale \in 10301..12499
          /\ simNodes[i].glowIntensity \in 5001..8999

(***************************************************************************)
(* Damping and frame time: C24                                             *)
(***************************************************************************)
\* C24: the scale and glow a redrawn frame leaves, having covered the time
\* since the previous frame in one step, are the ones two frames covering
\* half that time each would have left.
C24_FrameRateIndependent ==
    [][(IsFrameStep /\ frameDrew') =>
          \A i \in DOMAIN simNodes :
             LET half == (now - lastTime) \div 2
                 twice == AnimateNode(AnimateNode(simNodes[i], now - half, half), now, half)
             IN  /\ simNodes'[i].scale = twice.scale
                 /\ simNodes'[i].glowIntensity = twice.glowIntensity]_vars

(***************************************************************************)
(* Pulse phase: C25                                                        *)
(***************************************************************************)
\* the phase a frame at time `now` adds to node id, per ms since the previous
\* run of the frame handler
PulseRateOf(id) ==
    IF expandingNodeId = id THEN 5 ELSE IF selectedNode = id THEN 2 ELSE 0

\* over any step the phase of a node that remains does not decrease
PulsePhaseKept ==
    \A i \in DOMAIN simNodes, j \in DOMAIN simNodes' :
       simNodes[i].id = simNodes'[j].id => simNodes'[j].pulsePhase >= simNodes[i].pulsePhase

\* C25: the pulse phase of a node that remains never decreases, and every
\* scheduled frame adds to it the time since the previous frame at 2*pi per
\* 1200 ms for the expanding node, 2*pi per 3000 ms for a node that is only
\* selected, and nothing for any other node.
C25_PulsePhase ==
    [][/\ PulsePhaseKept
       /\ IsFrameStep =>
             \A i \in DOMAIN simNodes :
                simNodes'[i].pulsePhase =
                   simNodes[i].pulsePhase + PulseRateOf(simNodes[i].id) * (now - lastTime)]_vars

\* the part of C25 that holds: the same, for the scheduled frames that redraw
C25_PulsePhaseWhenRedrawn ==
    [][/\ PulsePhaseKept
       /\ (IsFrameStep /\ frameDrew') =>
             \A i \in DOMAIN simNodes :
                simNodes'[i].pulsePhase =
                   simNodes[i].pulsePhase + PulseRateOf(simNodes[i].id) * (now - lastTime)
       /\ (IsFrameStep /\ ~frameDrew') => expandingNodeId = NoNode]_vars

(***************************************************************************)
(* Which links a frame draws: C26                                          *)
(***************************************************************************)
\* the draw calls of the surface hold a link from SimNode a to SimNode b with
\* this progress
LinkDrawn(sn, ops, a, b, progress) ==
    \E k \in DOMAIN ops :
       /\ ops[k].kind = "link"
       /\ ops[k].from = sn[a].id
       /\ ops[k].to = sn[b].id
       /\ ops[k].progress = progress

LinkProgressOf(sn, l) ==
    Min(sn[l.source].entranceProgress, sn[l.target].entranceProgress)

\* C26: in every redrawn frame a SimLink is drawn, scaled by the smaller of
\* its endpoints' entrance progress, if and only if both endpoints have
\* begun their entrance, wherever the endpoints are.
C26_LinksDrawnByProgress ==
    [][IsRedrawStep =>
          \A l \in DOMAIN simLinks' :
             IF LinkProgressOf(simNodes', simLinks'[l]) > 0
             THEN LinkDrawn(simNodes', surface'.ops, simLinks'[l].source, simLinks'[l].target,
                            LinkProgressOf(simNodes', simLinks'[l]))
             ELSE \A k \in DOMAIN surface'.ops : surface'.ops[k].kind # "link"]_vars

\* the part of C26 that holds: the same, for the links whose endpoints have
\* no coordinate equal to 0
C26_LinksDrawnAwayFromZero ==
    [][IsRedrawStep =>
          \A l \in DOMAIN simLinks' :
             LET a == simNodes'[simLinks'[l].source]
                 b == simNodes'[simLinks'[l].target]
             IN  IF LinkProgressOf(simNodes', simLinks'[l]) > 0
                 THEN (a.x # 0 /\ a.y # 0 /\ b.x # 0 /\ b.y # 0) =>
                         LinkDrawn(simNodes', surface'.ops, simLinks'[l].source,
                                   simLinks'[l].target, LinkProgressOf(simNodes', simLinks'[l]))
                 ELSE \A k \in DOMAIN surface'.ops : surface'.ops[k].kind # "link"]_vars

C28_Deduplicated ==
    /\ \A i, j \in DOMAIN graphState.nodes :
          graphState.nodes[i].id = graphState.nodes[j].id => i = j
    /\ \A i, j \in DOMAIN graphState.edges :
          (/\ graphState.edges[i].source = graphState.edges[j].source
           /\ graphState.edges[i].target = graphState.edges[j].target) => i = j

\* the part of C28 that holds: an operation keeps the stored nodes and edges
\* and adds no node whose id, and no edge whose (source, target) pair, was
\* already stored, unless it clears the graph
C28_NoDuplicateOfStored ==
    [][\/ graphState' = EmptyState
       \/ /\ Len(graphState'.nodes) >= Len(graphState.nodes)
          /\ SubSeq(graphState'.nodes, 1, Len(graphState.nodes)) = graphState.nodes
          /\ \A j \in (Len(graphState.nodes) + 1)..Len(graphState'.nodes) :
                graphState'.nodes[j].id \notin IdsOf(graphState.nodes)
          /\ Len(graphState'.edges) >= Len(graphState.edges)
          /\ SubSeq(graphState'.edges, 1, Len(graphState.edges)) = graphState.edges
          /\ \A j \in (Len(graphState.edges) + 1)..Len(graphState'.edges) :
                EdgeKey(graphState'.edges[j]) \notin EdgeKeysOf(graphState.edges)]_vars

(***************************************************************************)
(* getContext: C29                                                         *)
(***************************************************************************)
\* the labels of the last min(10, n) of the n stored nodes, in list order
LastLabels ==
    LET n == Len(graphState.nodes)
        k == IF n < 10 THEN n ELSE 10
    IN  [i \in 1..k |-> graphState.nodes[n - k + i].label]

\* C29: every call of getContext returns the labels of the last min(10, n)
\* nodes of the current node list, in list order.
C29_ContextIsCurrent ==
    [][contextCalls' # contextCalls => contextRef' = LastLabels]_vars

\* the part of C29 that holds: a call made while the node list has another
\* length than at the call that last computed the labels returns the current
\* labels, and any other call returns what that call returned
C29_ContextRecomputedOnLengthChange ==
    [][contextCalls' # contextCalls =>
          IF Len(graphState.nodes) # contextNodesLengthRef
          THEN contextRef' = LastLabels
          ELSE contextRef' = contextRef]_vars

(***************************************************************************)
(* Automatic saving: C30                                                   *)
(***************************************************************************)
\* a save happens only after the initial load, when the debounce time has
\* passed since the last change, and stores the current nodes, edges and
\* logs; a change made while the page is open and loaded (re)starts the
\* debounce timer
SaveIsDebounced ==
    /\ localStorage' # localStorage =>
          /\ isLoaded
          /\ saveTimeout # NoTimeout /\ now >= saveTimeout
          /\ localStorage' = <<PersistedState(graphState)>>
          /\ loadFromStorage(localStorage') = graphState
    /\ (pageOpen /\ pageOpen' /\ graphState' # graphState) =>
          saveTimeout' = now + 500

\* C30: saves are debounced by 500 ms and happen only after the initial
\* load, and the page opened again shows the nodes, edges and logs it showed
\* when it was closed.
C30_NoChangeLost ==
    [][/\ SaveIsDebounced
       /\ (~pageOpen /\ pageOpen') => graphState' = graphState]_vars

\* the part of C30 that holds: saves are debounced, and the page opened again
\* shows what it showed when it was closed if no save was pending at the close
C30_SavedStateComesBack ==
    [][/\ SaveIsDebounced
       /\ (pageOpen /\ ~pageOpen' /\ isLoaded /\ saveTimeout = NoTimeout) =>
             loadFromStorage(localStorage) = graphState
       /\ (~pageOpen /\ pageOpen') => graphState' = loadFromStorage(localStorage)]_vars

\* the part of C30 that holds while the page stays open: the stored snapshot
\* eventually equals the current nodes, edges and logs for good
C30_EventuallySaved ==
    <>[](isLoaded /\ saveTimeout = NoTimeout /\ loadFromStorage(localStorage) = graphState)

(***************************************************************************)
(* Topology analysis on edges that name absent ids: C32                    *)
(***************************************************************************)
\* C32: when all roots have been processed, the depth and island maps hold only
\* ids of the node list, and every id they hold is reached from a root along
\* edges whose two endpoints are ids of the node list: the traversal does not
\* pass through an absent id.
C32_OnlyPresentIds ==
    TopoDone =>
        /\ DOMAIN depthMap \subseteq IdsOf(nodes)
        /\ DOMAIN islandMap \subseteq IdsOf(nodes)
        /\ DOMAIN depthMap \subseteq ForwardClosure(RootIds(nodes), ResolvableEdges)

\* what the traversal does instead (it holds): the maps hold exactly the ids
\* reached from a root along all the edges supplied, absent endpoints included
C32_AllEdgesFollowed ==
    TopoDone =>
        /\ DOMAIN depthMap = ForwardClosure(RootIds(nodes), edges)
        /\ DOMAIN islandMap = DOMAIN depthMap

(***************************************************************************)
(* The graph store's referential integrity: C35                            *)
(***************************************************************************)
EdgesReferToNodes(st) ==
    \A i \in DOMAIN st.edges :
        /\ st.edges[i].source \in IdsOf(st.nodes)
        /\ st.edges[i].target \in IdsOf(st.nodes)

\* C35: in every state reached from the empty graph by addNode, addNodes,
\* addNodesAndEdges, addEdge, addEdges and clearGraph, every stored edge has its
\* source and its target among the stored node ids.
C35_EdgesReferToStoredNodes == EdgesReferToNodes(graphState)

\* the operations other than addEdge keep the property (it holds): a step that
\* breaks it is a call of addEdge
C35_OnlyAddEdgeBreaks ==
    [][(EdgesReferToNodes(graphState) /\ ~EdgesReferToNodes(graphState'))
          => \E edge \in StoreEdges : graphState' = addEdge(graphState, edge)]_vars

(***************************************************************************)
(* The add operations applied twice: C39                                   *)
(***************************************************************************)
SameGraph(a, b) == a.nodes = b.nodes /\ a.edges = b.edges

NodeBatches == SeqsUpTo(StoreNodes, StoreMaxBatch)

EdgeBatches == SeqsUpTo(StoreEdges, StoreMaxBatch)

\* every node of the batch is stored already
NodesStored(st, newNodes) == \A i \in DOMAIN newNodes : newNodes[i].id \in IdsOf(st.nodes)

\* every edge of the batch is stored already or names an id other than those
\* of ids
EdgesStoredOrRejected(st, ids, newEdges) ==
    \A i \in DOMAIN newEdges :
        \/ EdgeKey(newEdges[i]) \in EdgeKeysOf(st.edges)
        \/ newEdges[i].source \notin ids
        \/ newEdges[i].target \notin ids

\* C39: in every reachable state and for every argument, each add operation
\* applied twice in a row with the same argument leaves the nodes and edges it
\* leaves when applied once, and a call whose argument brings nothing new
\* leaves nodes, edges and logs as they were.
C39_AddIsIdempotent ==
    LET g == graphState
    IN  /\ \A node \in StoreNodes :
              /\ SameGraph(addNode(addNode(g, node), node), addNode(g, node))
              /\ node.id \in IdsOf(g.nodes) => addNode(g, node) = g
        /\ \A edge \in StoreEdges :
              /\ SameGraph(addEdge(addEdge(g, edge), edge), addEdge(g, edge))
              /\ EdgeKey(edge) \in EdgeKeysOf(g.edges) => addEdge(g, edge) = g
        /\ \A newNodes \in NodeBatches :
              /\ SameGraph(addNodes(addNodes(g, newNodes), newNodes), addNodes(g, newNodes))
              /\ NodesStored(g, newNodes) => addNodes(g, newNodes) = g
        /\ \A newEdges \in EdgeBatches :
              /\ SameGraph(addEdges(addEdges(g, newEdges), newEdges), addEdges(g, newEdges))
              /\ EdgesStoredOrRejected(g, IdsOf(g.nodes), newEdges) => addEdges(g, newEdges) = g
        /\ \A newNodes \in NodeBatches : \A newEdges \in EdgeBatches :
              LET once == addNodesAndEdges(g, newNodes, newEdges)
              IN  /\ SameGraph(addNodesAndEdges(once, newNodes, newEdges), once)
                  /\ (NodesStored(g, newNodes)
                         /\ EdgesStoredOrRejected(g, IdsOf(g.nodes), newEdges)) => once = g

\* C39 witness: a graph with one node and one edge on which one batch
\* adds a node and an edge (one of them twice in the batch) and another batch
\* adds nothing.
C39_Witness ==
    /\ Len(graphState.nodes) = 1
    /\ Len(graphState.edges) = 1
    /\ \E newNodes \in NodeBatches : \E newEdges \in EdgeBatches :
          LET once == addNodesAndEdges(graphState, newNodes, newEdges)
          IN  /\ Len(once.nodes) > Len(graphState.nodes) + 1
              /\ Len(once.edges) > Len(graphState.edges)
    /\ \E newNodes \in NodeBatches :
          /\ newNodes # <<>>
          /\ NodesStored(graphState, newNodes)

(***************************************************************************)
(* After teardown: C34                                                     *)
(***************************************************************************)
\* C34: once the component is unmounted no callback of the engine runs: the
\* SimNodes (their positions included), the dirty flag, the is-active flag, the
\* frame timing, the surface and the dimensions keep the values they had at
\* teardown.
C34_NothingRunsAfterTeardown ==
    [][~mounted =>
          /\ simNodes' = simNodes
          /\ needsRedraw' = needsRedraw
          /\ isSimulationActive' = isSimulationActive
          /\ lastTime' = lastTime
          /\ surface' = surface
          /\ dimensions' = dimensions]_vars

\* what the simulation does after teardown (it holds): a step that changes
\* engine-owned state once the component is unmounted is a step of the
\* simulation's timer, which was running at teardown
C34_OnlyTheSimulationRuns ==
    [][(~mounted /\ <<simNodes, needsRedraw, isSimulationActive>>' #
                    <<simNodes, needsRedraw, isSimulationActive>>)
          => /\ simRunning
             /\ alpha' = alpha - 1
             /\ needsRedraw']_vars

(***************************************************************************)
(* The transform drawn and the transform the zoom behaviour holds: C33     *)
(***************************************************************************)
\* C33: in every state in which a canvas is mounted, the transform used for
\* rendering and picking is the transform the zoom behaviour holds for that
\* canvas, also after the graph was emptied and filled again following a
\* gesture.
C33_TransformIsTheControllers ==
    Len(nodes) > 0 => transform = zoomTransform

\* on one canvas the two agree (it holds): they differ only after the canvas
\* has been replaced, and a gesture on the new canvas makes them agree again
C33_AgreeUntilCanvasReplaced ==
    [][/\ (transform = zoomTransform /\ transform' # zoomTransform')
             => (zoomTransform' = zoomIdentity /\ (Len(nodes) = 0 \/ Len(nodes') = 0))
       /\ zoomTransform' # zoomTransform =>
             (transform' = zoomTransform' \/ zoomTransform' = zoomIdentity)]_vars

(***************************************************************************)
(* The retry policy: C31                                                   *)
(***************************************************************************)
IsClientError(result) ==
    ~result.ok /\ result.hasStatus /\ result.status >= 400 /\ result.status <= 499

\* C31: an attempt that succeeded or failed with a status in 400..499 is the
\* request's last; a query is attempted at most MaxRetries + 1 = 3 times,
\* whatever its failures (a network error reported with status 0 included); a
\* mutation is attempted at most once.
C31_RetryPolicy ==
    /\ \A i \in DOMAIN attempts :
          (attempts[i].ok \/ (fetchKind = "query" /\ IsClientError(attempts[i])))
              => (i = Len(attempts) /\ fetchState # "fetching")
    /\ fetchKind = "query" => Len(attempts) <= MaxRetries + 1
    /\ fetchKind = "mutation" =>
          /\ Len(attempts) <= 1
          /\ Len(attempts) = 1 => fetchState # "fetching"
    /\ failureCount <= MaxRetries

\* C31 witness: a query has failed for good after three attempts, the first a
\* network error reported with status 0, the second a server error.
C31_Witness ==
    /\ fetchKind = "query"
    /\ fetchState = "error"
    /\ Len(attempts) = 3
    /\ attempts[1] = [ok |-> FALSE, hasStatus |-> TRUE, status |-> 0]
    /\ attempts[2] = [ok |-> FALSE, hasStatus |-> TRUE, status |-> 500]

\* C31 witness: a mutation has failed for good at its first attempt, a server
\* error.
C31_WitnessMutation ==
    /\ fetchKind = "mutation"
    /\ fetchState = "error"
    /\ attempts = <<[ok |-> FALSE, hasStatus |-> TRUE, status |-> 500]>>


(***************************************************************************)
(* The page's requests                                                     *)
(***************************************************************************)
\* C36: at most one backend request (seed, expand or similarity) is in
\* flight at any time
C36_OneRequestInFlight == Cardinality(mutations) <= 1

\* an expand request that a node click started is in flight
ClickExpandInFlight == \E m \in mutations : m.kind = "expand" /\ m.click

\* a step in which a node click starts its expand request
ClickStartsExpand ==
    \E m \in mutations' \ mutations : m.kind = "expand" /\ m.click

\* a step in which an expand request that a node click started ends
ClickExpandEnds ==
    \E m \in mutations \ mutations' : m.kind = "expand" /\ m.click

\* C37: expandingNodeId is non-null only while an expand request started by
\* a node click is in flight; the click sets it, the end of every such
\* request (a 200, another status, a failure) sets it to null, and a
\* non-null expandingNodeId is always followed by a null one
C37_ExpandingWhileClickExpand ==
    /\ [](homeExpandingNodeId # NoNode => ClickExpandInFlight)
    /\ [][ClickStartsExpand => homeExpandingNodeId' # NoNode]_vars
    /\ [][ClickExpandEnds => homeExpandingNodeId' = NoNode]_vars
    /\ (homeExpandingNodeId # NoNode ~> homeExpandingNodeId = NoNode)

\* a node has been clicked and its expand request has not ended
C37_Witness == homeExpandingNodeId # NoNode /\ ClickExpandInFlight

\* C38: the spell-check result handed to onTypoDetected is the one of the
\* input value at the moment of the submission
C38_SpellCheckOfSubmittedValue ==
    [][(typoDialog'.isOpen /\ typoDialog' # typoDialog)
          => typoDialog'.spellCheck = checkSpelling(value)]_vars

\* the result handed over is always the one of the debounced input
C38_SpellCheckOfDebouncedInput ==
    [][(typoDialog'.isOpen /\ typoDialog' # typoDialog)
          => typoDialog'.spellCheck = checkSpelling(debouncedInput)]_vars

====
